---- MODULE Spec2Model ----
(***************************************************************************)
(* A model of the change-streaming core of crr-server: the per-database    *)
(* publisher task of the ChangeManager, the stream endpoint (catch-up      *)
(* followed by live delivery), change application and migrations.          *)
(*                                                                         *)
(* crsql_changes is modelled as a log of rows in db_version order; one     *)
(* commit appends the rows of one transaction under a fresh db_version.    *)
(* Rows written on the server itself carry site_id NULL in the table (the  *)
(* queries read them through COALESCE(site_id, crsql_siteid())).  The      *)
(* update hook is taken to signal the publisher at every commit.           *)
(***************************************************************************)
EXTENDS Integers, Sequences, FiniteSets, TLC

VARIABLES
    log,        \* crsql_changes of the tenant database, in db_version order
    handle,     \* the ChangeManager registry holds a DatabaseHandle for the database
    pubPc,      \* publisher task: "none", "drain", "wait", "exited"
    pubCursor,  \* db_version cursor of the publisher's Database
    signal,     \* messages buffered in the capacity-1 signal channel
    pc,         \* per stream request: "idle", "catchup", "live", "closed", "failed"
    query,      \* per stream request: site_id, db_version and permissions
    cursor,     \* per stream request: Database.db_version, then the live cutoff
    queue,      \* per stream request: broadcast messages not yet received
    received,   \* per stream request: the change events sent to the client
    subAt,      \* per stream request: crsql_dbversion() when subscribe() returned
    dropped,    \* per stream request: a live row sent in catch-up was dropped
    schema_version,   \* per stream request: the highest migration version emitted
    migration_events, \* per stream request: the migration events sent to the client
    postPc,     \* post_changes request: "idle", "running", "ok", "unauthorized", "error"
    postPermissions, \* permissions of the post_changes request
    postChanges,     \* the Vec<Changeset> of the post_changes request
    postIdx,    \* rows of the batch that went through the loop of apply_changes
    postTable,  \* the table the Unauthorized error of apply_changes names
    applied,    \* rows the request has inserted into crsql_changes
    schema,     \* committed statements of migrations, each with its request
    migrations, \* committed rows of crr_server_migrations, each with its request
    mPc,        \* per post_migrate request: position in apply_migration
    mPermissions,    \* per post_migrate request: its permissions
    mQueries,   \* per post_migrate request: the statements posted
    mResult,    \* per post_migrate request: the Result apply_migration returned
    returned,   \* the versions apply_migration returned, in the order of the returns
    aPc,        \* per authorized request: "idle", "resolved", "done"
    aRequest,   \* per authorized request: its route, database name and token
    aResult,    \* per authorized request: the Result of resolving its permissions
    aResponse,  \* per authorized request: status code and message of the response
    grants,     \* the permissions table of the auth database, for the one user
    opened,     \* the tenant database files opened or created by the handlers
    handles,    \* the HashMap of the ChangeManager: database name -> handle id, 0 none
    lock,       \* the RwLock around the HashMap: its writer and its readers
    hCount,     \* the number of DatabaseHandles created so far
    hName,      \* per handle: the database it watches
    hTask,      \* per handle: its publisher task, "none", "wait" or "exited"
    hSignal,    \* per handle: messages buffered in its signal channel
    hCursor,    \* per handle: rows of the database its publisher has read
    hSent,      \* per handle: messages sent on its broadcast channel
    hRemoved,   \* per handle: "" while in the HashMap, else who removed it
    committed,  \* per database: rows committed so far
    rPc,        \* per subscriber: position in subscribe() and in its stream
    rName,      \* per subscriber: the database it subscribes to
    rSub,       \* per subscriber: the handle its Subscription belongs to, 0 none
    rNext,      \* per subscriber: the next message of the channel it will receive
    rEnd,       \* per subscriber: the error that ended its live loop
    rLast,      \* per subscriber: the last message delivered to it, or the last
                \* one sent before it subscribed
    gcPc,       \* the GC task: "sleep", "collect", "remove"
    gcCollect,  \* the GC task: the names collected for removal
    connPc,          \* a connection: "closed", "open", "decided"
    connPermissions, \* the permissions the connection was opened with
    connAuthorizer,  \* the authorizer installed on it: "None" or "Some"
    connContext,     \* the AuthContext of the last action of a statement
    connDecision,    \* the Authorization SQLite got for that action
    itPc,       \* a ChangesIter: "none" or "iter"
    itKind,     \* the read it belongs to: "changes" or "all_changes"
    itCursor,   \* db_version of the Database its load_page closure borrows
    itPage,     \* current_page: the rows of the page not yet yielded
    itHasNext,  \* has_next_page
    itLast,     \* what the last call of next() returned: "Some", "Err", "None"
    itYielded,  \* the rows yielded so far
    itLoads,    \* the calls of load_page so far
    itLoad,      \* the last call of load_page: the rows of its query, the rows it
                \* buffered, its results, and whether a failure struck it
    clones,     \* ChangeManager values alive: the one new() returned and its clones
    strong,     \* strong count of the Arc around the registry
    gcTask,     \* GC task: "sleep", "pass" (holds the upgraded Arc), "returned"
    oPc,        \* authorize_migration of each user: "idle", "vacant", "done"
    oResult,    \* what authorize_migration returned to each user
    oOpened,    \* the users whose handler has opened the database
    owners,     \* users with a role that holds a full permission row on the database
    oFile,      \* the file of the database exists
    roPc,       \* get_permissions_for_user: "rows" while roles are granted, "done"
    roRows,     \* the permission rows of the user's roles on the database
    roResult    \* the DatabasePermissions the call returned

streamVars == <<log, handle, pubPc, pubCursor, signal, pc, query, cursor, queue,
                received, subAt, dropped>>

eventVars == <<schema_version, migration_events>>

postVars == <<postPc, postPermissions, postChanges, postIdx, postTable, applied>>

migrateVars == <<schema, migrations, mPc, mPermissions, mQueries, mResult,
                 returned>>

authVars == <<aPc, aRequest, aResult, aResponse, grants, opened>>

registryVars == <<handles, lock, hCount, hName, hTask, hSignal, hCursor, hSent,
                  hRemoved, committed, rPc, rName, rSub, rNext, rEnd, rLast, gcPc,
                  gcCollect>>

connVars == <<connPc, connPermissions, connAuthorizer, connContext, connDecision>>

iterVars == <<itPc, itKind, itCursor, itPage, itHasNext, itLast, itYielded,
              itLoads, itLoad>>

managerVars == <<clones, strong, gcTask>>

ownerVars == <<oPc, oResult, oOpened, owners, oFile>>

roleVars == <<roPc, roRows, roResult>>

vars == <<streamVars, eventVars, postVars, migrateVars, authVars, registryVars, connVars, iterVars, managerVars, ownerVars, roleVars>>

(* ---------------------------------------------------------------- bounds *)

\* commits made to the tenant database in one behaviour
MaxCommits == 2

(* ------------------------------------------------------------- constants *)

CHANGE_BUFFER_SIZE == 1000000

Streams == {1, 2}
Tables == {"foo", "bar"}
NULL == "NULL"
\* crsql_siteid() of the server's copy of the database
crsql_siteid == "srv"

(* ----------------------------------------------------------- permissions *)

PartialPermissions(r, i, u, d) ==
    [read |-> r, insert |-> i, update |-> u, delete |-> d]

PartialPermissions_default == PartialPermissions(FALSE, FALSE, FALSE, FALSE)

ObjectPermissions_Full == [full |-> TRUE, p |-> PartialPermissions_default]

ObjectPermissions_Partial(p) == [full |-> FALSE, p |-> p]

ObjectPermissions_read(o) == o.full \/ o.p.read

ObjectPermissions_insert(o) == o.full \/ o.p.insert

ObjectPermissions_update(o) == o.full \/ o.p.update

ObjectPermissions_delete(o) == o.full \/ o.p.delete

NoTables == [t \in {} |-> ObjectPermissions_Full]

DatabasePermissions_Full ==
    [full |-> TRUE, database |-> PartialPermissions_default, tables |-> NoTables]

DatabasePermissions_Partial(database, tables) ==
    [full |-> FALSE, database |-> database, tables |-> tables]

DatabasePermissions_default ==
    DatabasePermissions_Partial(PartialPermissions_default, NoTables)

full(P) == P.full

read_table(P, t) ==
    \/ P.full
    \/ P.database.read
    \/ (t \in DOMAIN P.tables /\ ObjectPermissions_read(P.tables[t]))

update_table(P, t) ==
    \/ P.full
    \/ P.database.update
    \/ (t \in DOMAIN P.tables /\ ObjectPermissions_update(P.tables[t]))

\* an insert check that looks at the database-level capability alone
insert_table_database(P, t) ==
    \/ P.full
    \/ P.database.insert

insert_table(P, t) ==
    \/ P.full
    \/ P.database.insert
    \/ (t \in DOMAIN P.tables /\ ObjectPermissions_insert(P.tables[t]))

delete_table(P, t) ==
    \/ P.full
    \/ P.database.delete
    \/ (t \in DOMAIN P.tables /\ ObjectPermissions_delete(P.tables[t]))

PartialPermissions_is_empty(p) == ~p.read /\ ~p.insert /\ ~p.update /\ ~p.delete

is_empty(P) ==
    IF P.full
    THEN FALSE
    ELSE PartialPermissions_is_empty(P.database) /\ DOMAIN P.tables = {}

AllowedTables_All == [all |-> TRUE, names |-> {}]

AllowedTables_Some(names) == [all |-> FALSE, names |-> names]

AllowedTables_is_empty(a) == ~a.all /\ a.names = {}

readable_tables(P) ==
    IF P.full \/ P.database.read
    THEN AllowedTables_All
    ELSE AllowedTables_Some(DOMAIN P.tables)

\* read on table foo, insert (and no read) on table bar
ReadFooInsertBar ==
    DatabasePermissions_Partial(PartialPermissions_default,
        [t \in {"foo", "bar"} |->
            IF t = "foo"
            THEN ObjectPermissions_Partial(PartialPermissions(TRUE, FALSE, FALSE, FALSE))
            ELSE ObjectPermissions_Partial(PartialPermissions(FALSE, TRUE, FALSE, FALSE))])

\* the table Database::migrations reads
MigrationLog == "crr_server_migrations"

\* ReadFooInsertBar with read on the migration log, which a client with partial
\* permissions needs to open a stream
ReadFooInsertBarLog ==
    DatabasePermissions_Partial(PartialPermissions_default,
        [t \in {"foo", "bar", MigrationLog} |->
            IF t = "bar"
            THEN ObjectPermissions_Partial(PartialPermissions(FALSE, TRUE, FALSE, FALSE))
            ELSE ObjectPermissions_Partial(PartialPermissions(TRUE, FALSE, FALSE, FALSE))])

\* insert on the database and nothing else: no table is readable
InsertOnly ==
    DatabasePermissions_Partial(PartialPermissions(FALSE, TRUE, FALSE, FALSE), NoTables)

(* ------------------------------------------------------------ changesets *)

\* the byte length of a site id
SiteIdLen(site_id) == 16

\* Changeset::size
size(cs) ==
    Len(cs.table) + Len(cs.pk) + Len(cs.cid) + cs.val_size + 16 + SiteIdLen(cs.site_id)

\* COALESCE(site_id, crsql_siteid()) of the change queries
COALESCE(site_id) == IF site_id = NULL THEN crsql_siteid ELSE site_id

\* a row of crsql_changes as the TryFrom<&Row> of a change query returns it
Changeset(row) == [row EXCEPT !.site_id = COALESCE(row.site_id)]

crsql_dbversion(l) == IF l = <<>> THEN 0 ELSE l[Len(l)].db_version

\* the transactions of the model: the site_id stored with the rows, and the
\* (table, size of val) of each row written
Transactions ==
    { [site_id |-> NULL, rows |-> << <<"foo", 8>> >>],
      [site_id |-> "b", rows |-> << <<"bar", 1000000>>, <<"bar", 8>> >>] }

(* ---------------------------------------------------------- change reads *)

\* WHERE db_version > ? AND site_id IS NOT ? [AND "table" IN (...)]
SelectChanges(l, db_version, site_id, allowed) ==
    SelectSeq(l, LAMBDA row :
        /\ row.db_version > db_version
        /\ row.site_id # site_id
        /\ (allowed.all \/ row.table \in allowed.names))

\* WHERE db_version > ?
SelectAllChanges(l, db_version) ==
    SelectSeq(l, LAMBDA row : row.db_version > db_version)

\* a budget that counts as exceeded when it is reached
Exceeds_ge(buffer_size) == buffer_size >= CHANGE_BUFFER_SIZE

\* buffer_size > CHANGE_BUFFER_SIZE
Exceeds(buffer_size) == buffer_size > CHANGE_BUFFER_SIZE

RECURSIVE ChangesPageLen(_, _, _, _)
\* the page loop of Database::changes: the number of rows buffered
ChangesPageLen(rows, n, buffer_size, db_version) ==
    IF n = Len(rows)
    THEN n
    ELSE IF Exceeds(buffer_size) /\ rows[n + 1].db_version > db_version
         THEN n
         ELSE ChangesPageLen(rows, n + 1, buffer_size + size(Changeset(rows[n + 1])),
                             rows[n + 1].db_version)

\* one call of the load_page closure of Database::changes
ChangesPage(l, db_version, site_id, allowed) ==
    LET rows == SelectChanges(l, db_version, site_id, allowed)
        n == ChangesPageLen(rows, 0, 0, db_version)
    IN  [buffer |-> [i \in 1..n |-> Changeset(rows[i])],
         has_next_page |-> n < Len(rows),
         db_version |-> IF n = 0 THEN db_version ELSE rows[n].db_version]

RECURSIVE AllChangesPageLen(_, _, _)
\* the page loop of Database::all_changes: the number of rows buffered
AllChangesPageLen(rows, n, buffer_size) ==
    IF n = Len(rows)
    THEN [n |-> n, has_next_page |-> FALSE]
    ELSE IF Exceeds(buffer_size + size(Changeset(rows[n + 1])))
         THEN [n |-> n + 1, has_next_page |-> TRUE]
         ELSE AllChangesPageLen(rows, n + 1, buffer_size + size(Changeset(rows[n + 1])))

\* one call of the load_page closure of Database::all_changes
AllChangesPage(l, db_version) ==
    LET rows == SelectAllChanges(l, db_version)
        r == AllChangesPageLen(rows, 0, 0)
    IN  [buffer |-> [i \in 1..r.n |-> Changeset(rows[i])],
         has_next_page |-> r.has_next_page,
         db_version |-> IF r.n = 0 THEN db_version ELSE rows[r.n].db_version]

RECURSIVE all_changes(_, _)
\* the rows ChangesIter yields for Database::all_changes: the pages in turn, as
\* long as a page has rows and reports a next page
all_changes(l, db_version) ==
    LET page == AllChangesPage(l, db_version)
    IN  IF page.has_next_page /\ page.buffer # <<>>
        THEN page.buffer \o all_changes(l, page.db_version)
        ELSE page.buffer

\* Migration::new(version, sql)
Migration(version, sql) == [version |-> version, sql |-> sql]

\* a read of the log that also returns the migration the client already has
Database_migrations_ge(rows, since) ==
    LET selected == SelectSeq(rows, LAMBDA row : row.version >= since)
    IN  [i \in 1..Len(selected) |-> Migration(selected[i].version, selected[i].sql)]

\* Database::migrations: SELECT version, "sql" FROM crr_server_migrations
\* WHERE version > ?, the rows of the rowid table in the order of its scan
Database_migrations(rows, since) ==
    LET selected == SelectSeq(rows, LAMBDA row : row.version > since)
    IN  [i \in 1..Len(selected) |-> Migration(selected[i].version, selected[i].sql)]

\* the queries (site_id, db_version, schema_version, permissions) the streams of
\* the model are opened with
Queries ==
    { [site_id |-> crsql_siteid, db_version |-> 0, schema_version |-> 0,
       permissions |-> DatabasePermissions_Full],
      [site_id |-> "a", db_version |-> 0, schema_version |-> 0,
       permissions |-> ReadFooInsertBarLog],
      [site_id |-> "b", db_version |-> 1, schema_version |-> 0,
       permissions |-> DatabasePermissions_Full],
      [site_id |-> "a", db_version |-> 0, schema_version |-> 0,
       permissions |-> DatabasePermissions_default] }

\* the messages of the broadcast channel
Message_Change(changeset) == [type |-> "Change", changeset |-> changeset]

Message_Migration(migration) == [type |-> "Migration", migration |-> migration]

(* ------------------------------------------------------- stream endpoint *)

\* an event: change frame as the client sees it, with the phase that sent it
Event(changeset, phase) == [change |-> changeset, phase |-> phase]

\* the streams that hold a broadcast receiver
Receivers == {s \in Streams : pc[s] \in {"catchup", "live"}}

\* DatabaseHandle::is_orphan
is_orphan == Cardinality(Receivers) < 1

\* the Message::Change arm without the db_version check
LiveAccepts_nocutoff(s, changeset) ==
    /\ read_table(query[s].permissions, changeset.table)
    /\ changeset.site_id # query[s].site_id

\* the three checks of the Message::Change arm of stream_changes
LiveAccepts(s, changeset) ==
    /\ read_table(query[s].permissions, changeset.table)
    /\ ~(changeset.db_version < cursor[s])
    /\ changeset.site_id # query[s].site_id

\* the cutoff without the increment: the last catch-up version passes again
LiveCutoff_same(db_version) == db_version

\* let mut db_version = db.lock().await.db_version() + 1
LiveCutoff(db_version) == db_version + 1

StreamInit ==
    /\ log = <<>>
    /\ handle = FALSE
    /\ pubPc = "none"
    /\ pubCursor = 0
    /\ signal = 0
    /\ pc = [s \in Streams |-> "idle"]
    /\ query = [s \in Streams |->
                  [site_id |-> crsql_siteid, db_version |-> 0, schema_version |-> 0,
                   permissions |-> DatabasePermissions_Full]]
    /\ cursor = [s \in Streams |-> 0]
    /\ queue = [s \in Streams |-> <<>>]
    /\ received = [s \in Streams |-> <<>>]
    /\ subAt = [s \in Streams |-> 0]
    /\ dropped = [s \in Streams |-> FALSE]
    /\ schema_version = [s \in Streams |-> 0]
    /\ migration_events = [s \in Streams |-> <<>>]

\* tokio::sync::mpsc::channel::<()>(1)
SignalCapacity == 1

\* the publisher task runs and the sender of its signal channel is in the registry
PublisherAlive == handle /\ pubPc \in {"drain", "wait"}

\* a channel that drops the buffered signal when a send finds it full
try_send_reset(buffered) == IF buffered < SignalCapacity THEN buffered + 1 ELSE 0

\* sender.try_send(()) of the update hook, its result ignored: the signal is
\* buffered when the channel has room, and given up, without waiting, when full
try_send(buffered) == IF buffered < SignalCapacity THEN buffered + 1 ELSE buffered

\* a transaction on the tenant database commits; the update hook signals the publisher
Commit(tx) ==
    /\ crsql_dbversion(log) < MaxCommits
    /\ log' = log \o
         [i \in 1..Len(tx.rows) |->
            [id |-> Len(log) + i,
             table |-> tx.rows[i][1],
             pk |-> "'a'",
             cid |-> "bar",
             val_size |-> tx.rows[i][2],
             col_version |-> 1,
             db_version |-> crsql_dbversion(log) + 1,
             site_id |-> tx.site_id]]
    /\ signal' = IF PublisherAlive THEN try_send(signal) ELSE signal
    /\ UNCHANGED <<handle, pubPc, pubCursor, pc, query, cursor, queue, received,
                   subAt, dropped>>
    /\ UNCHANGED <<eventVars, postVars, migrateVars, authVars, registryVars, connVars, iterVars, managerVars, ownerVars, roleVars>>

\* a read of the migration log that no authorizer is asked about
MigrationsReadable_any(permissions) == TRUE

\* Database::migrations prepares its SELECT on the connection as opened: with
\* permissions that are not full the authorizer is asked about the Read of
\* crr_server_migrations, and a denial fails the statement
MigrationsReadable(permissions) == read_table(permissions, MigrationLog)

\* stream_changes up to the return of the Sse stream: subscribe, then open_readonly
\* and the read of the initial migrations, which the stream emits first; when the
\* read fails the handler returns the error and the subscription is dropped
StreamChanges(s, q) ==
    /\ pc[s] = "idle"
    \* the clients of the model are replicas that send the same query
    /\ \A t \in Streams : pc[t] # "idle" => query[t] = q
    /\ IF handle
       THEN UNCHANGED <<handle, pubPc, pubCursor, signal>>
       ELSE /\ handle' = TRUE
            /\ pubPc' = "drain"
            /\ pubCursor' = crsql_dbversion(log)
            /\ signal' = 0
    /\ query' = [query EXCEPT ![s] = q]
    /\ queue' = [queue EXCEPT ![s] = <<>>]
    /\ IF MigrationsReadable(q.permissions)
       THEN /\ pc' = [pc EXCEPT ![s] = "catchup"]
            /\ cursor' = [cursor EXCEPT ![s] = q.db_version]
            /\ subAt' = [subAt EXCEPT ![s] = crsql_dbversion(log)]
            /\ LET initial_migrations == Database_migrations(migrations, q.schema_version)
               IN  /\ migration_events' = [migration_events EXCEPT ![s] = initial_migrations]
                   /\ schema_version' = [schema_version EXCEPT ![s] =
                          IF initial_migrations = <<>> THEN q.schema_version
                          ELSE initial_migrations[Len(initial_migrations)].version]
       ELSE /\ pc' = [pc EXCEPT ![s] = "failed"]
            /\ cursor' = [cursor EXCEPT ![s] = 0]
            /\ subAt' = [subAt EXCEPT ![s] = 0]
            /\ migration_events' = [migration_events EXCEPT ![s] = <<>>]
            /\ schema_version' = [schema_version EXCEPT ![s] = q.schema_version]
    /\ UNCHANGED <<log, received, dropped>>
    /\ UNCHANGED <<postVars, migrateVars, authVars, registryVars, connVars, iterVars, managerVars, ownerVars, roleVars>>

\* one page of the catch-up loop; after the last page the stream turns live
CatchUpPage(s) ==
    /\ pc[s] = "catchup"
    /\ LET allowed == readable_tables(query[s].permissions)
           page == ChangesPage(log, cursor[s], query[s].site_id, allowed)
       IN  IF AllowedTables_is_empty(allowed)
           THEN /\ pc' = [pc EXCEPT ![s] = "closed"]
                /\ queue' = [queue EXCEPT ![s] = <<>>]
                /\ UNCHANGED <<cursor, received>>
           ELSE /\ received' = [received EXCEPT ![s] =
                                @ \o [i \in 1..Len(page.buffer) |->
                                        Event(page.buffer[i], "catchup")]]
                /\ queue' = queue
                /\ IF page.buffer # <<>> /\ page.has_next_page
                   THEN /\ cursor' = [cursor EXCEPT ![s] = page.db_version]
                        /\ pc' = pc
                   ELSE /\ cursor' = [cursor EXCEPT ![s] = LiveCutoff(page.db_version)]
                        /\ pc' = [pc EXCEPT ![s] = "live"]
    /\ UNCHANGED <<log, handle, pubPc, pubCursor, signal, query, subAt, dropped>>
    /\ UNCHANGED <<eventVars, postVars, migrateVars, authVars, registryVars, connVars, iterVars, managerVars, ownerVars, roleVars>>

\* the Message::Change arm of the live loop
RecvChange(s, changeset) ==
    /\ IF LiveAccepts(s, changeset)
       THEN /\ cursor' = [cursor EXCEPT ![s] = changeset.db_version]
            /\ received' = [received EXCEPT ![s] =
                               Append(@, Event(changeset, "live"))]
            /\ dropped' = dropped
       ELSE /\ dropped' =
                 IF \E i \in 1..Len(received[s]) :
                       received[s][i].change.id = changeset.id
                 THEN [dropped EXCEPT ![s] = TRUE]
                 ELSE dropped
            /\ UNCHANGED <<cursor, received>>
    /\ UNCHANGED eventVars

\* a check that lets the version already emitted pass
MigrationNewer_ge(version, emitted) == version >= emitted

\* if migration.version() > schema_version
MigrationNewer(version, emitted) == version > emitted

\* the Message::Migration arm of the live loop
RecvMigration(s, migration) ==
    /\ IF MigrationNewer(migration.version, schema_version[s])
       THEN /\ schema_version' = [schema_version EXCEPT ![s] = migration.version]
            /\ migration_events' = [migration_events EXCEPT ![s] =
                                       Append(@, migration)]
       ELSE UNCHANGED eventVars
    /\ UNCHANGED <<cursor, received, dropped>>

\* one iteration of the live loop on a message of the subscription
LiveRecv(s) ==
    /\ pc[s] = "live"
    /\ queue[s] # <<>>
    /\ LET message == Head(queue[s])
       IN  /\ queue' = [queue EXCEPT ![s] = Tail(@)]
           /\ IF message.type = "Change"
              THEN RecvChange(s, message.changeset)
              ELSE RecvMigration(s, message.migration)
    /\ UNCHANGED <<log, handle, pubPc, pubCursor, signal, pc, query, subAt>>
    /\ UNCHANGED <<postVars, migrateVars, authVars, registryVars, connVars, iterVars, managerVars, ownerVars, roleVars>>

\* the client goes away: the stream is dropped, and with it its broadcast
\* receiver, its Database and its cutoff
Disconnect(s) ==
    /\ pc[s] \in {"catchup", "live"}
    /\ pc' = [pc EXCEPT ![s] = "closed"]
    /\ queue' = [queue EXCEPT ![s] = <<>>]
    /\ cursor' = [cursor EXCEPT ![s] = 0]
    /\ subAt' = [subAt EXCEPT ![s] = 0]
    /\ UNCHANGED <<log, handle, pubPc, pubCursor, signal, query, received, dropped>>
    /\ UNCHANGED <<eventVars, postVars, migrateVars, authVars, registryVars, connVars, iterVars, managerVars, ownerVars, roleVars>>

(* --------------------------------------------------------- publisher task *)

\* send_changes, one page of all_changes at a time: a send without receivers
\* ends the task
PublisherSendPage ==
    /\ pubPc = "drain"
    /\ LET page == AllChangesPage(log, pubCursor)
       IN  IF page.buffer # <<>> /\ is_orphan
           THEN /\ pubPc' = "exited"
                /\ UNCHANGED <<pubCursor, queue>>
           ELSE /\ queue' = [s \in Streams |->
                               IF s \in Receivers
                               THEN queue[s] \o [i \in 1..Len(page.buffer) |->
                                                    Message_Change(page.buffer[i])]
                               ELSE queue[s]]
                /\ pubCursor' = page.db_version
                /\ pubPc' = IF page.buffer # <<>> /\ page.has_next_page
                            THEN "drain" ELSE "wait"
    /\ UNCHANGED <<log, handle, signal, pc, query, cursor, received, subAt, dropped>>
    /\ UNCHANGED <<eventVars, postVars, migrateVars, authVars, registryVars, connVars, iterVars, managerVars, ownerVars, roleVars>>

\* signal_receiver.recv() returns a signal
PublisherWake ==
    /\ pubPc = "wait"
    /\ signal = 1
    /\ signal' = 0
    /\ pubPc' = "drain"
    /\ UNCHANGED <<log, handle, pubCursor, pc, query, cursor, queue, received,
                   subAt, dropped>>
    /\ UNCHANGED <<eventVars, postVars, migrateVars, authVars, registryVars, connVars, iterVars, managerVars, ownerVars, roleVars>>

\* the sweep of the garbage collection task: an orphaned handle is removed, which
\* closes the signal channel and ends its publisher task and its Database
GC ==
    /\ handle
    /\ is_orphan
    /\ handle' = FALSE
    /\ pubPc' = "none"
    /\ signal' = 0
    /\ pubCursor' = 0
    /\ UNCHANGED <<log, pc, query, cursor, queue, received, subAt, dropped>>
    /\ UNCHANGED <<eventVars, postVars, migrateVars, authVars, registryVars, connVars, iterVars, managerVars, ownerVars, roleVars>>

(* ------------------------------------------------------------ ChangesIter *)

\* calls of load_page by one iterator
MaxLoads == 4

\* val of the row that makes a change of table bar exactly CHANGE_BUFFER_SIZE big
ExactVal == CHANGE_BUFFER_SIZE - size([table |-> "bar", pk |-> "'a'", cid |-> "bar",
                                       val_size |-> 0, site_id |-> "b"])

\* the transactions behind the pages: a small row, a row that fills the budget
\* exactly, and a commit whose first row goes over the budget
PageTransactions ==
    { [site_id |-> NULL, rows |-> << <<"foo", 8>> >>],
      [site_id |-> "b", rows |-> << <<"bar", ExactVal>> >>],
      [site_id |-> "b", rows |-> << <<"bar", 1000000>>, <<"bar", 8>> >>] }

\* what can strike a call of load_page: nothing (0), the prepare of the
\* statement (-1), or the fetch of the k-th row of the result by rows.next()
Failures(l) == {-1, 0} \cup (1..(Len(l) + 1))

\* the query of the read: the selective read of a client with site_id "a" that
\* may read every table, or the full read
IterSelect(kind, l, db_version) ==
    IF kind = "changes"
    THEN SelectChanges(l, db_version, "a", AllowedTables_All)
    ELSE SelectAllChanges(l, db_version)

\* one call of the load_page closure with the failure that strikes it.  In
\* Database::changes the loop is `while let Ok(Some(row)) = rows.next()`, which a
\* failed fetch ends like the end of the result; in Database::all_changes it is
\* `while let Some(row) = rows.next()?`, which returns the error
load_page(kind, l, db_version, failure) ==
    LET rows == IterSelect(kind, l, db_version)
        visible == IF failure > 0 /\ failure <= Len(rows)
                   THEN SubSeq(rows, 1, failure - 1) ELSE rows
        cut == Len(visible) < Len(rows)
        n == IF kind = "changes"
             THEN ChangesPageLen(visible, 0, 0, db_version)
             ELSE AllChangesPageLen(visible, 0, 0).n
        broke == IF kind = "changes"
                 THEN n < Len(visible)
                 ELSE AllChangesPageLen(visible, 0, 0).has_next_page
        struck == failure = -1 \/ (cut /\ ~broke)
        ok == failure # -1 /\ (kind = "changes" \/ ~struck)
    IN  [ok |-> ok,
         rows |-> rows,
         buffer |-> IF ok THEN [i \in 1..n |-> Changeset(rows[i])] ELSE <<>>,
         has_next_page |-> ok /\ broke,
         db_version |-> IF ok /\ n > 0 THEN rows[n].db_version ELSE db_version,
         struck |-> struck]

\* an iterator that takes every page to have a successor
HasNextPage_always(has_next_page) == TRUE

\* self.has_next_page = has_next_page
HasNextPage(has_next_page) == has_next_page

NoLoad ==
    [ok |-> TRUE, rows |-> <<>>, buffer |-> <<>>, has_next_page |-> FALSE,
     db_version |-> 0, struck |-> FALSE]

IterInit ==
    /\ itPc = "none"
    /\ itKind = "changes"
    /\ itCursor = 0
    /\ itPage = <<>>
    /\ itHasNext = TRUE
    /\ itLast = "Some"
    /\ itYielded = <<>>
    /\ itLoads = 0
    /\ itLoad = NoLoad

\* ChangesIter::new for Database::changes or Database::all_changes on a Database
\* opened at db_version 0
ChangesIter_new(kind) ==
    /\ itPc = "none"
    /\ itPc' = "iter"
    /\ itKind' = kind
    /\ itCursor' = 0
    /\ itPage' = <<>>
    /\ itHasNext' = TRUE
    /\ UNCHANGED <<itLast, itYielded, itLoads, itLoad>>
    /\ UNCHANGED <<streamVars, eventVars, postVars, migrateVars, authVars, registryVars, connVars, managerVars, ownerVars, roleVars>>

\* ChangesIter::next
ChangesIter_next(failure) ==
    /\ itPc = "iter"
    /\ IF itPage # <<>>
       THEN /\ itLast' = "Some"
            /\ itYielded' = Append(itYielded, Head(itPage).id)
            /\ itPage' = Tail(itPage)
            /\ UNCHANGED <<itCursor, itHasNext, itLoads, itLoad>>
       ELSE IF itHasNext
       THEN LET result == load_page(itKind, log, itCursor, failure)
            IN  /\ itLoads < MaxLoads
                /\ itLoads' = itLoads + 1
                /\ itLoad' = result
                /\ itCursor' = result.db_version
                /\ IF result.ok
                   THEN /\ itHasNext' = HasNextPage(result.has_next_page)
                        /\ IF result.buffer # <<>>
                           THEN /\ itLast' = "Some"
                                /\ itYielded' = Append(itYielded, Head(result.buffer).id)
                                /\ itPage' = Tail(result.buffer)
                           ELSE /\ itLast' = "None"
                                /\ UNCHANGED <<itYielded, itPage>>
                   ELSE /\ itLast' = "Err"
                        /\ UNCHANGED <<itHasNext, itYielded, itPage>>
       ELSE /\ itLast' = "None"
            /\ UNCHANGED <<itCursor, itPage, itHasNext, itYielded, itLoads, itLoad>>
    /\ UNCHANGED <<itPc, itKind>>
    /\ UNCHANGED <<streamVars, eventVars, postVars, migrateVars, authVars, registryVars, connVars, managerVars, ownerVars, roleVars>>

\* the iterator is dropped
ChangesIter_drop ==
    /\ itPc = "iter"
    /\ itPc' = "none"
    /\ itKind' = "changes"
    /\ itCursor' = 0
    /\ itPage' = <<>>
    /\ itHasNext' = TRUE
    /\ itLast' = "Some"
    /\ itYielded' = <<>>
    /\ itLoads' = 0
    /\ itLoad' = NoLoad
    /\ UNCHANGED <<streamVars, eventVars, postVars, migrateVars, authVars, registryVars, connVars, managerVars, ownerVars, roleVars>>

\* the database is written before the read starts
NextPages ==
    \/ \E tx \in PageTransactions : itPc = "none" /\ Commit(tx)
    \/ \E kind \in {"changes", "all_changes"} : ChangesIter_new(kind)
    \/ \E failure \in Failures(log) : ChangesIter_next(failure)
    \/ ChangesIter_drop

(* ----------------------------------------------------------- post_changes *)

\* rows of one posted batch
MaxBatch == 2

\* the changesets a client posts: a delete (cid "__crsql_del"), or a column value
\* with col_version 1 or a later col_version
ChangeRows ==
    [table : Tables, cid : {"__crsql_del", "bar"}, col_version : {1, 2}]

Batches == UNION {[1..n -> ChangeRows] : n \in 1..MaxBatch}

\* insert on table foo only
InsertFoo ==
    DatabasePermissions_Partial(PartialPermissions_default,
        [t \in {"foo"} |->
            ObjectPermissions_Partial(PartialPermissions(FALSE, TRUE, FALSE, FALSE))])

\* the permissions the posting clients of the model hold
PostPermissions ==
    {DatabasePermissions_Full, ReadFooInsertBar, InsertFoo}
      \cup {DatabasePermissions_Partial(PartialPermissions(r, i, u, d), NoTables) :
              r \in BOOLEAN, i \in BOOLEAN, u \in BOOLEAN, d \in BOOLEAN}

\* the authorizer Database::open installs on the connection
set_authorizer(permissions) == IF full(permissions) THEN "None" ELSE "Some"

\* the scope guard of the privileged writes: no authorizer while it lives
disable_authorization(authorizer) == "None"

\* the chain of the checks with && in place of the nested ifs: a row whose own
\* check passes falls through to the checks of the other classes
RowAuthorized_chained(permissions, changeset) ==
    IF changeset.cid = "__crsql_del" /\ ~delete_table(permissions, changeset.table)
    THEN FALSE
    ELSE IF changeset.col_version = 1 /\ ~insert_table(permissions, changeset.table)
         THEN FALSE
         ELSE update_table(permissions, changeset.table)

\* the check of one row in the loop of apply_changes
RowAuthorized(permissions, changeset) ==
    IF changeset.cid = "__crsql_del"
    THEN delete_table(permissions, changeset.table)
    ELSE IF changeset.col_version = 1
         THEN insert_table(permissions, changeset.table)
         ELSE update_table(permissions, changeset.table)

\* the authorizer, where one is installed, decides on the INSERT INTO crsql_changes
InsertAllowed(authorizer, permissions) ==
    authorizer = "None" \/ insert_table(permissions, "crsql_changes")

\* fn auth of set_authorizer
auth(value) == IF value THEN "Allow" ELSE "Deny"

\* the actions SQLite asks the authorizer about
AuthActions ==
    {"Select", "Read", "Update", "Insert", "Delete", "Transaction", "Function",
     "CreateTable", "Pragma", "AttachDatabase"}

\* the functions of the statements: one the server's own queries call and one
\* that no client statement may call
FunctionNames == {"crsql_dbversion", "load_extension"}

\* the functions a restricted connection may call
AllowListed == {"crsql_dbversion"}

AuthContext(action, table_name, function_name) ==
    [action |-> action, table_name |-> table_name, function_name |-> function_name]

AuthContexts ==
    {AuthContext(a, t, "") : a \in {"Read", "Update", "Insert", "Delete", "CreateTable"},
                             t \in Tables}
      \cup {AuthContext(a, "", "") : a \in {"Select", "Transaction", "Pragma",
                                             "AttachDatabase"}}
      \cup {AuthContext("Function", "", f) : f \in FunctionNames}

\* the closure set_authorizer installs when the permissions are not full
authorizer(permissions, context) ==
    CASE context.action = "Select" -> "Allow"
      [] context.action = "Read" -> auth(read_table(permissions, context.table_name))
      [] context.action = "Update" -> auth(update_table(permissions, context.table_name))
      [] context.action = "Insert" -> auth(insert_table(permissions, context.table_name))
      [] context.action = "Delete" -> auth(delete_table(permissions, context.table_name))
      [] context.action = "Transaction" -> "Allow"
      [] OTHER -> "Deny"

\* what SQLite does with an action: without an authorizer every action is allowed
Authorization(installed, permissions, context) ==
    IF installed = "None" THEN "Allow" ELSE authorizer(permissions, context)

ConnInit ==
    /\ connPc = "closed"
    /\ connPermissions = DatabasePermissions_default
    /\ connAuthorizer = "None"
    /\ connContext = AuthContext("Select", "", "")
    /\ connDecision = "Allow"

\* Database::open: the connection gets the authorizer of its permissions
Open(permissions) ==
    /\ connPc = "closed"
    /\ connPc' = "open"
    /\ connPermissions' = permissions
    /\ connAuthorizer' = set_authorizer(permissions)
    /\ UNCHANGED <<connContext, connDecision>>
    /\ UNCHANGED <<streamVars, eventVars, postVars, migrateVars, authVars, registryVars, iterVars, managerVars, ownerVars, roleVars>>

\* a statement is prepared on the connection: SQLite asks about one action
Statement(context) ==
    /\ connPc \in {"open", "decided"}
    /\ connPc' = "decided"
    /\ connContext' = context
    /\ connDecision' = Authorization(connAuthorizer, connPermissions, context)
    /\ UNCHANGED <<connPermissions, connAuthorizer>>
    /\ UNCHANGED <<streamVars, eventVars, postVars, migrateVars, authVars, registryVars, iterVars, managerVars, ownerVars, roleVars>>

\* the Database is dropped
Close ==
    /\ connPc \in {"open", "decided"}
    /\ connPc' = "closed"
    /\ connPermissions' = DatabasePermissions_default
    /\ connAuthorizer' = "None"
    /\ connContext' = AuthContext("Select", "", "")
    /\ connDecision' = "Allow"
    /\ UNCHANGED <<streamVars, eventVars, postVars, migrateVars, authVars, registryVars, iterVars, managerVars, ownerVars, roleVars>>

NextConn ==
    \/ \E permissions \in PostPermissions : Open(permissions)
    \/ \E context \in AuthContexts : Statement(context)
    \/ Close

PostInit ==
    /\ postPc = "idle"
    /\ postPermissions = DatabasePermissions_default
    /\ postChanges = <<>>
    /\ postIdx = 0
    /\ postTable = NULL
    /\ applied = <<>>

\* post_changes up to the loop of apply_changes: Database::open and the prepare
PostChanges(permissions, changes) ==
    /\ postPc = "idle"
    /\ postPc' = "running"
    /\ postPermissions' = permissions
    /\ postChanges' = changes
    /\ UNCHANGED <<postIdx, postTable, applied>>
    /\ UNCHANGED <<streamVars, eventVars, migrateVars, authVars, registryVars, connVars, iterVars, managerVars, ownerVars, roleVars>>

\* one iteration of the loop: the check of the row, then stmt.insert, which SQLite
\* commits on its own since no transaction is open; inserted tells whether the
\* statement succeeded
ApplyRow(inserted) ==
    /\ postPc = "running"
    /\ postIdx < Len(postChanges)
    /\ LET changeset == postChanges[postIdx + 1]
           authorized == disable_authorization(set_authorizer(postPermissions))
       IN  IF ~RowAuthorized(postPermissions, changeset)
           THEN /\ postPc' = "unauthorized"
                /\ postTable' = changeset.table
                /\ UNCHANGED <<postIdx, applied>>
           ELSE IF inserted /\ InsertAllowed(authorized, postPermissions)
                THEN /\ applied' = Append(applied, changeset)
                     /\ postIdx' = postIdx + 1
                     /\ UNCHANGED <<postPc, postTable>>
                ELSE /\ postPc' = "error"
                     /\ UNCHANGED <<postIdx, postTable, applied>>
    /\ UNCHANGED <<postPermissions, postChanges>>
    /\ UNCHANGED <<streamVars, eventVars, migrateVars, authVars, registryVars, connVars, iterVars, managerVars, ownerVars, roleVars>>

\* the loop is over: Ok(())
ApplyReturn ==
    /\ postPc = "running"
    /\ postIdx = Len(postChanges)
    /\ postPc' = "ok"
    /\ UNCHANGED <<postPermissions, postChanges, postIdx, postTable, applied>>
    /\ UNCHANGED <<streamVars, eventVars, migrateVars, authVars, registryVars, connVars, iterVars, managerVars, ownerVars, roleVars>>

\* the changes all_changes() yields on the database of the log are posted, with
\* full access, to a second database that has the same schema
SyncChanges ==
    PostChanges(DatabasePermissions_Full, all_changes(log, 0))

\* the same changes are posted to the second database once more
SyncAgain ==
    /\ postPc = "ok"
    /\ Len(applied) = Len(postChanges)
    /\ postChanges # <<>>
    /\ postPc' = "running"
    /\ postIdx' = 0
    /\ UNCHANGED <<postPermissions, postChanges, postTable, applied>>
    /\ UNCHANGED <<streamVars, eventVars, migrateVars, authVars, registryVars, connVars, iterVars, managerVars, ownerVars, roleVars>>

NextSync ==
    \/ \E tx \in Transactions : Commit(tx)
    \/ SyncChanges
    \/ \E inserted \in BOOLEAN : ApplyRow(inserted)
    \/ ApplyReturn
    \/ SyncAgain

NextPost ==
    \/ \E permissions \in PostPermissions, changes \in Batches :
            PostChanges(permissions, changes)
    \/ \E inserted \in BOOLEAN : ApplyRow(inserted)
    \/ ApplyReturn

(* ----------------------------------------------------------- post_migrate *)

Requests == {1, 2}

\* a statement is the sequence of the pieces of its text
QUOTE == "\""

CreateFoo == <<"CREATE TABLE ", QUOTE, "foo", QUOTE, " (id PRIMARY KEY)">>

AlterFoo == <<"ALTER TABLE ", QUOTE, "foo", QUOTE, " ADD COLUMN ", QUOTE, "baz", QUOTE>>

InsertFooRow == <<"INSERT INTO foo VALUES (1)">>

\* the statement of the migration broadcast test: the table name without quotes
CreateFooBare == <<"CREATE TABLE ", "foo", " (bar text)">>

\* statements of one posted migration
MaxStatements == 2

\* the bodies of the requests of the model
MigrationBatches ==
    UNION {[1..n -> {CreateFoo, AlterFoo, InsertFooRow}] : n \in 1..MaxStatements}

\* every capability on the database, without being Full
AllCapabilities ==
    DatabasePermissions_Partial(PartialPermissions(TRUE, TRUE, TRUE, TRUE), NoTables)

MigratePermissions == {DatabasePermissions_Full, AllCapabilities, ReadFooInsertBar}

\* the leftmost match of <keyword>"(.+)" in sql: the capture runs to the last quote
Captures(keyword, sql) ==
    LET starts == {i \in 1..Len(sql) :
                     /\ sql[i] = keyword
                     /\ i + 1 <= Len(sql) /\ sql[i + 1] = QUOTE
                     /\ \E j \in (i + 3)..Len(sql) : sql[j] = QUOTE}
    IN  IF starts = {}
        THEN [matched |-> FALSE, name |-> <<>>]
        ELSE LET i == CHOOSE x \in starts : \A y \in starts : x <= y
                 j == CHOOSE x \in (i + 3)..Len(sql) :
                        /\ sql[x] = QUOTE
                        /\ \A y \in (i + 3)..Len(sql) : sql[y] = QUOTE => y <= x
             IN  [matched |-> TRUE, name |-> SubSeq(sql, i + 2, j - 1)]

\* MigrationType::detect
detect(sql) ==
    LET altered == Captures("ALTER TABLE ", sql)
        created == Captures("CREATE TABLE ", sql)
    IN  IF altered.matched
        THEN [type |-> "Alter", table_name |-> altered.name]
        ELSE IF created.matched
             THEN [type |-> "Create", table_name |-> created.name]
             ELSE [type |-> "Other", table_name |-> <<>>]

\* the statements enable_migration_crr pushes for sql
enable_migration_crr(sql) ==
    LET m == detect(sql)
    IN  IF m.type = "Alter"
        THEN << <<"SELECT crsql_begin_alter('">> \o m.table_name \o <<"')">>,
                sql,
                <<"SELECT crsql_commit_alter('">> \o m.table_name \o <<"')">> >>
        ELSE IF m.type = "Create"
             THEN << sql, <<"SELECT crsql_as_crr('">> \o m.table_name \o <<"')">> >>
             ELSE << sql >>

RECURSIVE crr_migrations(_)
\* the loop over the posted statements
crr_migrations(queries) ==
    IF queries = <<>>
    THEN <<>>
    ELSE enable_migration_crr(Head(queries)) \o crr_migrations(Tail(queries))

RECURSIVE join(_, _)
\* crr_migrations.join(";\n")
join(statements, separator) ==
    IF statements = <<>>
    THEN <<>>
    ELSE IF Len(statements) = 1
         THEN Head(statements)
         ELSE Head(statements) \o <<separator>> \o join(Tail(statements), separator)

\* the rowid SQLite gives a row inserted without one: the largest in use plus one
next_rowid(rows) ==
    IF rows = <<>> THEN 1 ELSE rows[Len(rows)].version + 1

\* a savepoint dropped without commit rolls back what it wrote
savepoint_drop(persisted, written) == persisted

\* the Result of apply_migration: Err(Unauthorized), another Err, or Ok(Migration)
Result(status, version, sql) == [status |-> status, version |-> version, sql |-> sql]

\* a check that takes every capability on the database for full access
migration_authorized_caps(permissions) ==
    \/ full(permissions)
    \/ /\ permissions.database.read
       /\ permissions.database.insert
       /\ permissions.database.update
       /\ permissions.database.delete

\* the check at the head of apply_migration
migration_authorized(permissions) == full(permissions)

MigrateInit ==
    /\ schema = <<>>
    /\ migrations = <<>>
    /\ mPc = [r \in Requests |-> "idle"]
    /\ mPermissions = [r \in Requests |-> DatabasePermissions_default]
    /\ mQueries = [r \in Requests |-> <<>>]
    /\ mResult = [r \in Requests |-> Result("none", 0, <<>>)]
    /\ returned = <<>>

\* post_migrate up to the savepoint: Database::open, the check of full() and the
\* rewrite of the statements
ApplyMigration(r, permissions, queries) ==
    /\ mPc[r] = "idle"
    /\ mPermissions' = [mPermissions EXCEPT ![r] = permissions]
    /\ mQueries' = [mQueries EXCEPT ![r] = queries]
    /\ IF ~migration_authorized(permissions)
       THEN /\ mPc' = [mPc EXCEPT ![r] = "done"]
            /\ mResult' = [mResult EXCEPT ![r] = Result("Unauthorized", 0, <<>>)]
       ELSE /\ mPc' = [mPc EXCEPT ![r] = "savepoint"]
            /\ UNCHANGED mResult
    /\ UNCHANGED <<schema, migrations, returned>>
    /\ UNCHANGED <<streamVars, eventVars, postVars, authVars, registryVars, connVars, iterVars, managerVars, ownerVars, roleVars>>

\* the savepoint: execute_batch, the insert into crr_server_migrations and the
\* commit, which no other writer can interleave with since the first write takes
\* the write lock of the file.  failing is the step that fails: a statement of the
\* batch, then the insert, then the commit; 0 when none does
RunSavepoint(r, failing) ==
    /\ mPc[r] = "savepoint"
    /\ LET statements == crr_migrations(mQueries[r])
           joined_migrations == join(statements, ";\n")
           executed == IF failing = 0 THEN Len(statements)
                       ELSE IF failing <= Len(statements) THEN failing - 1
                       ELSE Len(statements)
           written == [i \in 1..executed |-> [request |-> r, sql |-> statements[i]]]
           row == [version |-> next_rowid(migrations), sql |-> joined_migrations,
                   request |-> r]
       IN  /\ failing <= Len(statements) + 2
           /\ IF failing = 0
              THEN /\ schema' = schema \o written
                   /\ migrations' = Append(migrations, row)
                   /\ mPc' = [mPc EXCEPT ![r] = "committed"]
                   /\ UNCHANGED mResult
              ELSE /\ schema' = savepoint_drop(schema, written)
                   /\ migrations' = savepoint_drop(migrations,
                                       IF failing = Len(statements) + 2
                                       THEN <<row>> ELSE <<>>)
                   /\ mPc' = [mPc EXCEPT ![r] = "done"]
                   /\ mResult' = [mResult EXCEPT ![r] = Result("Error", 0, <<>>)]
    /\ UNCHANGED <<mPermissions, mQueries, returned>>
    /\ UNCHANGED <<streamVars, eventVars, postVars, authVars, registryVars, connVars, iterVars, managerVars, ownerVars, roleVars>>

\* Ok(Migration::new(self.last_insert_rowid(), joined_migrations)): the rowid of
\* the last insert of the request's own connection
MigrationReturn(r) ==
    /\ mPc[r] = "committed"
    /\ LET last_insert_rowid ==
             (CHOOSE i \in 1..Len(migrations) : migrations[i].request = r)
       IN  /\ mResult' = [mResult EXCEPT ![r] =
                            Result("Ok", migrations[last_insert_rowid].version,
                                   migrations[last_insert_rowid].sql)]
           /\ returned' = Append(returned, migrations[last_insert_rowid].version)
    /\ mPc' = [mPc EXCEPT ![r] = "returned"]
    /\ UNCHANGED <<schema, migrations, mPermissions, mQueries>>
    /\ UNCHANGED <<streamVars, eventVars, postVars, authVars, registryVars, connVars, iterVars, managerVars, ownerVars, roleVars>>

\* publish_migration: the handle of the database is looked up and the Migration
\* sent on its broadcast channel; without a handle nothing is sent
publish_migration(migration) ==
    IF handle
    THEN queue' = [s \in Streams |->
                     IF s \in Receivers
                     THEN Append(queue[s], Message_Migration(migration))
                     ELSE queue[s]]
    ELSE queue' = queue

\* a handler that reports a publish nobody received
post_migrate_reply_strict(delivered) == IF delivered THEN "Ok" ELSE "Error"

\* the end of post_migrate: publish_migration(..).await has no value that is
\* looked at, and Ok(()) follows it
post_migrate_reply(delivered) == "Ok"

\* post_migrate after apply_migration returned Ok: the migration is published and
\* the request answered
PublishMigration(r) ==
    /\ mPc[r] = "returned"
    /\ publish_migration(Migration(mResult[r].version, mResult[r].sql))
    /\ mPc' = [mPc EXCEPT ![r] = "done"]
    /\ mResult' = [mResult EXCEPT ![r].status =
                      post_migrate_reply(handle /\ Receivers # {})]
    /\ UNCHANGED <<log, handle, pubPc, pubCursor, signal, pc, query, cursor, received,
                   subAt, dropped>>
    /\ UNCHANGED <<schema, migrations, mPermissions, mQueries, returned>>
    /\ UNCHANGED <<eventVars, postVars, authVars, registryVars, connVars, iterVars, managerVars, ownerVars, roleVars>>

NextMigrate ==
    \/ \E r \in Requests, permissions \in MigratePermissions,
          queries \in MigrationBatches : ApplyMigration(r, permissions, queries)
    \/ \E r \in Requests, failing \in 0..(MaxStatements * 3 + 2) :
            RunSavepoint(r, failing)
    \/ \E r \in Requests : MigrationReturn(r)
    \/ \E r \in Requests : PublishMigration(r)

(* ------------------------------------------- migrations sent to the streams *)

\* the queries of the streams that follow the migrations
BroadcastQueries ==
    { [site_id |-> "a", db_version |-> 0, schema_version |-> v,
       permissions |-> DatabasePermissions_Full] : v \in {0, 1} }

\* the bodies of the migrations the streams follow
BroadcastBatches == {<<CreateFooBare>>, <<CreateFoo>>}

\* one stream keeps the publisher of the database alive
SignalStreams == {1}

NextSignal ==
    \/ \E tx \in Transactions : Commit(tx)
    \/ \E s \in SignalStreams, q \in BroadcastQueries : StreamChanges(s, q)
    \/ \E s \in SignalStreams : CatchUpPage(s)
    \/ \E s \in SignalStreams : LiveRecv(s)
    \/ \E s \in SignalStreams : Disconnect(s)
    \/ PublisherSendPage
    \/ PublisherWake
    \/ GC

\* the queries of callers that may read no table
DeniedQueries ==
    { [site_id |-> "a", db_version |-> 0, schema_version |-> 0, permissions |-> P] :
        P \in {InsertOnly, DatabasePermissions_default} }

\* streams of callers without a readable table on a database that is written
\* and migrated
NextDenied ==
    \/ \E tx \in Transactions : Commit(tx)
    \/ \E s \in Streams, q \in DeniedQueries : StreamChanges(s, q)
    \/ PublisherSendPage
    \/ PublisherWake
    \/ GC
    \/ \E r \in Requests, queries \in BroadcastBatches :
            ApplyMigration(r, DatabasePermissions_Full, queries)
    \/ \E r \in Requests, failing \in 0..(MaxStatements * 3 + 2) :
            RunSavepoint(r, failing)
    \/ \E r \in Requests : MigrationReturn(r)
    \/ \E r \in Requests : PublishMigration(r)

NextBroadcast ==
    \/ \E s \in Streams, q \in BroadcastQueries : StreamChanges(s, q)
    \/ \E s \in Streams : CatchUpPage(s)
    \/ \E s \in Streams : LiveRecv(s)
    \/ \E s \in Streams : Disconnect(s)
    \/ PublisherSendPage
    \/ GC
    \/ \E r \in Requests, queries \in BroadcastBatches :
            ApplyMigration(r, DatabasePermissions_Full, queries)
    \/ \E r \in Requests, failing \in 0..(MaxStatements * 3 + 2) :
            RunSavepoint(r, failing)
    \/ \E r \in Requests : MigrationReturn(r)
    \/ \E r \in Requests : PublishMigration(r)

(* ------------------------------------------ permissions of a request, errors *)

RESERVED_NAMES == {"auth", "sync"}

\* database names of requests: the reserved ones, a tenant database whose file
\* exists and one that was never created
DbNames == RESERVED_NAMES \cup {"tenant", "fresh"}

Routes == {"stream", "post_changes", "run", "migrate"}

\* the cookie of a request: none, the admin token, the token of the user, a token
\* the tokens table does not hold
Tokens == {"none", "admin", "user", "unknown"}

\* the variants of CRRError
ErrorKinds ==
    {"DatabaseError", "ParserError", "InvalidURLError", "SmtpError", "MailingError",
     "InvalidAddress", "EnvVarError", "BroadcastRecvError", "IOError", "Unauthorized",
     "UnsupportedOS", "PoisonedLockError", "SignalSendError", "JsonError",
     "ReservedName", "PathRejection", "Base64DecodeError"}

Ok(permissions) == [kind |-> "Ok", detail |-> "", permissions |-> permissions]

Err(kind, detail) ==
    [kind |-> kind, detail |-> detail, permissions |-> DatabasePermissions_default]

\* impl From<CRRError> for HttpError
HttpError_from(value) ==
    IF value.kind = "Unauthorized"
    THEN [status_code |-> 401, message |-> value.detail]
    ELSE [status_code |-> 500, message |-> "Internal Server Error"]

\* the response of a handler that returned Ok(())
HttpOk == [status_code |-> 200, message |-> ""]

\* SELECT user_id FROM tokens WHERE token = :token AND expires > 'now'
authenticate_user(token) ==
    IF token = "user" THEN Ok(DatabasePermissions_default)
    ELSE Err("DatabaseError", "Query returned no rows")

get_permissions_for_user(db_name) == grants[db_name]

get_permissions(token, db_name) ==
    IF db_name \in RESERVED_NAMES
    THEN Err("ReservedName", db_name)
    ELSE IF token = "none"
    THEN Err("Unauthorized", "No Token found")
    ELSE IF token = "admin"
    THEN Ok(DatabasePermissions_Full)
    ELSE IF authenticate_user(token).kind # "Ok"
    THEN authenticate_user(token)
    ELSE IF is_empty(get_permissions_for_user(db_name))
    THEN Err("Unauthorized", "User has no access to database")
    ELSE Ok(get_permissions_for_user(db_name))

\* authorize_migration; creates is TRUE when it grants the user full access to a
\* database that has no file yet
authorize_migration(token, db_name) ==
    IF token = "none"
    THEN [result |-> Err("Unauthorized", "No Token found"), creates |-> FALSE]
    ELSE IF token = "admin"
    THEN [result |-> Ok(DatabasePermissions_Full), creates |-> FALSE]
    ELSE IF authenticate_user(token).kind # "Ok"
    THEN [result |-> authenticate_user(token), creates |-> FALSE]
    ELSE LET result == get_permissions(token, db_name)
         IN  IF result.kind = "Unauthorized"
             THEN IF db_name \in opened
                  THEN [result |-> result, creates |-> FALSE]
                  ELSE [result |-> Ok(DatabasePermissions_Full), creates |-> TRUE]
             ELSE [result |-> result, creates |-> FALSE]

\* the permissions of a request are resolved before its handler runs: with
\* authorize_migration on the migrate route, with get_permissions on the others
resolve_permissions(route, token, db_name) ==
    IF route = "migrate"
    THEN authorize_migration(token, db_name)
    ELSE [result |-> get_permissions(token, db_name), creates |-> FALSE]

AuthInit ==
    /\ aPc = [r \in Requests |-> "idle"]
    /\ aRequest = [r \in Requests |-> [route |-> "stream", db_name |-> "tenant",
                                        token |-> "none"]]
    /\ aResult = [r \in Requests |-> Ok(DatabasePermissions_default)]
    /\ aResponse = [r \in Requests |-> HttpOk]
    /\ grants = [n \in DbNames |->
                   IF n = "tenant" THEN ReadFooInsertBar ELSE DatabasePermissions_default]
    /\ opened = {"tenant"}

\* a request arrives and its permissions are resolved
ResolvePermissions(r, route, db_name, token) ==
    /\ aPc[r] = "idle"
    /\ LET resolved == resolve_permissions(route, token, db_name)
       IN  /\ aResult' = [aResult EXCEPT ![r] = resolved.result]
           /\ grants' = IF resolved.creates
                        THEN [grants EXCEPT ![db_name] = DatabasePermissions_Full]
                        ELSE grants
    /\ aRequest' = [aRequest EXCEPT ![r] =
                       [route |-> route, db_name |-> db_name, token |-> token]]
    /\ aPc' = [aPc EXCEPT ![r] = "resolved"]
    /\ UNCHANGED <<aResponse, opened>>
    /\ UNCHANGED <<streamVars, eventVars, postVars, migrateVars, registryVars, connVars, iterVars, managerVars, ownerVars, roleVars>>

\* the rejection of a request whose permissions were not granted
Reject(r) ==
    /\ aPc[r] = "resolved"
    /\ aResult[r].kind # "Ok"
    /\ aResponse' = [aResponse EXCEPT ![r] = HttpError_from(aResult[r])]
    /\ aPc' = [aPc EXCEPT ![r] = "done"]
    /\ UNCHANGED <<aRequest, aResult, grants, opened>>
    /\ UNCHANGED <<streamVars, eventVars, postVars, migrateVars, registryVars, connVars, iterVars, managerVars, ownerVars, roleVars>>

\* the handler of a request with permissions: it opens the file of the database
\* and returns Ok(()) or, with error in ErrorKinds, an error of that variant
Handle(r, error) ==
    /\ aPc[r] = "resolved"
    /\ aResult[r].kind = "Ok"
    /\ opened' = opened \cup {aRequest[r].db_name}
    /\ IF error \in ErrorKinds
       THEN /\ aResult' = [aResult EXCEPT ![r] = Err(error, "detail")]
            /\ aResponse' = [aResponse EXCEPT ![r] =
                                HttpError_from(Err(error, "detail"))]
       ELSE /\ aResponse' = [aResponse EXCEPT ![r] = HttpOk]
            /\ UNCHANGED aResult
    /\ aPc' = [aPc EXCEPT ![r] = "done"]
    /\ UNCHANGED <<aRequest, grants>>
    /\ UNCHANGED <<streamVars, eventVars, postVars, migrateVars, registryVars, connVars, iterVars, managerVars, ownerVars, roleVars>>

\* authenticated users that have no permission row on the database
Users == {"u1", "u2", "u3"}

OwnerInit ==
    /\ oPc = [u \in Users |-> "idle"]
    /\ oResult = [u \in Users |-> ""]
    /\ oOpened = {}
    /\ owners = {}
    /\ oFile = FALSE

\* Database::file_path(..).exists()
file_exists == oFile

\* authorize_migration of user u up to the test of the file: get_permissions
\* returns the permissions of a user who has some, and Unauthorized otherwise,
\* which stands when the file of the database exists
AuthorizeMigration(u) ==
    /\ oPc[u] = "idle"
    /\ IF u \in owners
       THEN /\ oPc' = [oPc EXCEPT ![u] = "done"]
            /\ oResult' = [oResult EXCEPT ![u] = "Full"]
       ELSE IF file_exists
       THEN /\ oPc' = [oPc EXCEPT ![u] = "done"]
            /\ oResult' = [oResult EXCEPT ![u] = "Unauthorized"]
       ELSE /\ oPc' = [oPc EXCEPT ![u] = "vacant"]
            /\ UNCHANGED oResult
    /\ UNCHANGED <<oOpened, owners, oFile>>
    /\ UNCHANGED <<streamVars, eventVars, postVars, migrateVars, authVars, registryVars,
                   connVars, iterVars, managerVars, roleVars>>

\* the else branch: BEGIN, a new role for the user with a full permission row on
\* the database, COMMIT, and Ok(DatabasePermissions::Full)
GrantOwner(u) ==
    /\ oPc[u] = "vacant"
    /\ owners' = owners \cup {u}
    /\ oPc' = [oPc EXCEPT ![u] = "done"]
    /\ oResult' = [oResult EXCEPT ![u] = "Full"]
    /\ UNCHANGED <<oOpened, oFile>>
    /\ UNCHANGED <<streamVars, eventVars, postVars, migrateVars, authVars, registryVars,
                   connVars, iterVars, managerVars, roleVars>>

\* post_migrate of a user that was granted permissions: Database::open creates
\* the file of the database
OwnerOpen(u) ==
    /\ oPc[u] = "done"
    /\ oResult[u] = "Full"
    /\ u \notin oOpened
    /\ oOpened' = oOpened \cup {u}
    /\ oFile' = TRUE
    /\ UNCHANGED <<oPc, oResult, owners>>
    /\ UNCHANGED <<streamVars, eventVars, postVars, migrateVars, authVars, registryVars,
                   connVars, iterVars, managerVars, roleVars>>

\* the request of the user is over, and the user sends another one
OwnerAgain(u) ==
    /\ oPc[u] = "done"
    /\ oResult[u] = "Unauthorized" \/ u \in oOpened
    /\ oPc' = [oPc EXCEPT ![u] = "idle"]
    /\ oResult' = [oResult EXCEPT ![u] = ""]
    /\ oOpened' = oOpened \ {u}
    /\ UNCHANGED <<owners, oFile>>
    /\ UNCHANGED <<streamVars, eventVars, postVars, migrateVars, authVars, registryVars,
                   connVars, iterVars, managerVars, roleVars>>

NextOwner ==
    \/ \E u \in Users : AuthorizeMigration(u)
    \/ \E u \in Users : GrantOwner(u)
    \/ \E u \in Users : OwnerOpen(u)
    \/ \E u \in Users : OwnerAgain(u)

(* ----------------------------------------- permission rows of several roles *)

\* permission rows of the roles of one user on one database
MaxPermissionRows == 2

\* the rows of the permissions table: table_name is NULL in a row about the
\* database; pupdate and pdelete are left out of the rows of the model
PermissionRows ==
    [table_name : {NULL, "foo"}, read : BOOLEAN, insert : BOOLEAN, full : BOOLEAN]

\* PartialPermissions { read, insert, update, delete } of a row
RowPermissions(row) == PartialPermissions(row.read, row.insert, FALSE, FALSE)

\* DatabasePermissions::set
DatabasePermissions_set(P, permissions) ==
    IF P.full THEN P ELSE [P EXCEPT !.database = permissions]

\* with_table: the entry of the table, or_insert(ObjectPermissions::default())
Entry_or_insert(tables, table_name) ==
    IF table_name \in DOMAIN tables
    THEN tables[table_name]
    ELSE ObjectPermissions_Partial(PartialPermissions_default)

\* the table map with the entry of table_name set to object
WithTable(P, table_name, object) ==
    IF P.full
    THEN P
    ELSE [P EXCEPT !.tables =
            [t \in DOMAIN P.tables \cup {table_name} |->
                IF t = table_name THEN object ELSE P.tables[t]]]

\* DatabasePermissions::set_table_full
set_table_full(P, table_name) == WithTable(P, table_name, ObjectPermissions_Full)

\* an ObjectPermissions::set that adds the capabilities of the row to the entry
ObjectPermissions_set_union(object, permissions) ==
    IF object.full
    THEN object
    ELSE ObjectPermissions_Partial(
             PartialPermissions(object.p.read \/ permissions.read,
                                object.p.insert \/ permissions.insert,
                                object.p.update \/ permissions.update,
                                object.p.delete \/ permissions.delete))

\* ObjectPermissions::set: Full stays, Partial(p) => *p = permissions
ObjectPermissions_set(object, permissions) ==
    IF object.full THEN object ELSE ObjectPermissions_Partial(permissions)

\* DatabasePermissions::set_table
set_table(P, table_name, permissions) ==
    IF P.full
    THEN P
    ELSE WithTable(P, table_name,
                   ObjectPermissions_set(Entry_or_insert(P.tables, table_name), permissions))

RECURSIVE permissions_of_rows(_, _)
\* the loop of get_permissions_for_user over the rows in the order the query
\* returns them, from the permissions so far
permissions_of_rows(rows, permissions) ==
    IF rows = <<>>
    THEN permissions
    ELSE LET row == Head(rows)
         IN  IF row.table_name # NULL
             THEN permissions_of_rows(Tail(rows),
                      IF row.full
                      THEN set_table_full(permissions, row.table_name)
                      ELSE set_table(permissions, row.table_name, RowPermissions(row)))
             ELSE IF row.full
                  THEN DatabasePermissions_Full
                  ELSE permissions_of_rows(Tail(rows),
                           DatabasePermissions_set(permissions, RowPermissions(row)))

\* the orders in which a query can return n rows
Orders(n) == {f \in [1..n -> 1..n] : \A i, j \in 1..n : i # j => f[i] # f[j]}

\* the rows in the order f
Ordered(rows, f) == [i \in 1..Len(rows) |-> rows[f[i]]]

RoleInit ==
    /\ roPc = "rows"
    /\ roRows = <<>>
    /\ roResult = DatabasePermissions_default

\* a role of the user is given a permission row on the database; the rows of one
\* role differ in the table
GrantRole(row) ==
    /\ roPc = "rows"
    /\ Len(roRows) < MaxPermissionRows
    /\ roRows' = Append(roRows, row)
    /\ UNCHANGED <<roPc, roResult>>
    /\ UNCHANGED <<streamVars, eventVars, postVars, migrateVars, authVars, registryVars,
                   connVars, iterVars, managerVars, ownerVars>>

\* get_permissions_for_user: the query returns the rows in the order f
GetPermissionsForUser(f) ==
    /\ roPc = "rows"
    /\ roResult' = permissions_of_rows(Ordered(roRows, f), DatabasePermissions_default)
    /\ roPc' = "done"
    /\ UNCHANGED roRows
    /\ UNCHANGED <<streamVars, eventVars, postVars, migrateVars, authVars, registryVars,
                   connVars, iterVars, managerVars, ownerVars>>

\* the next request of the user
RoleAgain ==
    /\ roPc = "done"
    /\ roPc' = "rows"
    /\ roResult' = DatabasePermissions_default
    /\ UNCHANGED roRows
    /\ UNCHANGED <<streamVars, eventVars, postVars, migrateVars, authVars, registryVars,
                   connVars, iterVars, managerVars, ownerVars>>

NextRole ==
    \/ \E row \in PermissionRows : GrantRole(row)
    \/ \E f \in Orders(Len(roRows)) : GetPermissionsForUser(f)
    \/ RoleAgain

NextAuth ==
    \/ \E r \in Requests, route \in Routes, db_name \in DbNames, token \in Tokens :
            ResolvePermissions(r, route, db_name, token)
    \/ \E r \in Requests : Reject(r)
    \/ \E r \in Requests, error \in ErrorKinds \cup {"None"} : Handle(r, error)

(* ------------------------------ the registry of the ChangeManager, lock by lock *)

\* the databases with subscribers
RegNames == {"tenant", "other"}

Subscribers == {"s1", "s2"}

\* the DatabaseHandles that can be created, in the order of their creation
HandleIds == {1, 2}

\* rows that can be committed to one database
MaxRows == 1

\* tokio::sync::broadcast::channel::<Message>(32)
Capacity == 32

\* the receivers of the broadcast channel of handle h: the Subscriptions of the
\* streams that have not ended
receiver_count(h) == Cardinality({s \in Subscribers : rPc[s] = "live" /\ rSub[s] = h})

\* a handle that never counts as an orphan
DatabaseHandle_is_orphan_never(h) == FALSE

DatabaseHandle_is_orphan(h) == receiver_count(h) < 1

\* an update hook that keeps a sender of its own
signal_senders_hook(h) == 1

\* the senders of the signal channel of handle h: the one in the DatabaseHandle;
\* the update hook holds a weak sender
signal_senders(h) == IF hRemoved[h] = "" THEN 1 ELSE 0

\* the senders of the broadcast channel of handle h: the one in the DatabaseHandle
\* and task_message_sender in the publisher task
message_senders(h) ==
    (IF hRemoved[h] = "" THEN 1 ELSE 0) + (IF hTask[h] = "wait" THEN 1 ELSE 0)

\* a GC that gives the lock back between collecting and removing
LockAfterCollect_released(writer) == "none"

\* the writer of the lock once the GC has collected the orphans: the guard lives
\* until the removals are done
LockAfterCollect(writer) == writer

\* a live loop that goes on after a lagged receive
LoopContinues_lagged(result) == result \in {"Ok", "Lagged"}

\* while let Ok(message) = subscription.recv().await
LoopContinues(result) == result = "Ok"

\* subscription.recv() of subscriber s
recv(s) ==
    LET h == rSub[s]
    IN  IF hSent[h] - rNext[s] > Capacity THEN "Lagged"
        ELSE IF rNext[s] < hSent[h] THEN "Ok"
        ELSE IF message_senders(h) = 0 THEN "Closed"
        ELSE "Pending"

RegistryInit ==
    /\ handles = [n \in RegNames |-> 0]
    /\ lock = [writer |-> "none", readers |-> {}]
    /\ hCount = 0
    /\ hName = [h \in HandleIds |-> "tenant"]
    /\ hTask = [h \in HandleIds |-> "none"]
    /\ hSignal = [h \in HandleIds |-> 0]
    /\ hCursor = [h \in HandleIds |-> 0]
    /\ hSent = [h \in HandleIds |-> 0]
    /\ hRemoved = [h \in HandleIds |-> ""]
    /\ committed = [n \in RegNames |-> 0]
    /\ rPc = [s \in Subscribers |-> "idle"]
    /\ rName = [s \in Subscribers |-> "tenant"]
    /\ rSub = [s \in Subscribers |-> 0]
    /\ rNext = [s \in Subscribers |-> 0]
    /\ rEnd = [s \in Subscribers |-> ""]
    /\ rLast = [s \in Subscribers |-> 0]
    /\ gcPc = "sleep"
    /\ gcCollect = {}

\* handle.subscribe(): a receiver that sees the messages sent from now on
subscribe(s, h) ==
    /\ rSub' = [rSub EXCEPT ![s] = h]
    /\ rNext' = [rNext EXCEPT ![s] = hSent[h]]
    /\ rLast' = [rLast EXCEPT ![s] = hSent[h]]
    /\ rPc' = [rPc EXCEPT ![s] = "live"]

\* stream_changes calls ChangeManager::subscribe
Subscribe(s, n) ==
    /\ rPc[s] = "idle"
    /\ rPc' = [rPc EXCEPT ![s] = "subscribe"]
    /\ rName' = [rName EXCEPT ![s] = n]
    /\ UNCHANGED <<handles, lock, hCount, hName, hTask, hSignal, hCursor, hSent,
                   hRemoved, committed, rSub, rNext, rEnd, rLast, gcPc, gcCollect>>
    /\ UNCHANGED <<streamVars, eventVars, postVars, migrateVars, authVars, connVars, iterVars, managerVars, ownerVars, roleVars>>

\* self.0.read().await
SubscribeRead(s) ==
    /\ rPc[s] = "subscribe"
    /\ lock.writer = "none"
    /\ lock' = [lock EXCEPT !.readers = @ \cup {s}]
    /\ rPc' = [rPc EXCEPT ![s] = "read"]
    /\ UNCHANGED <<handles, hCount, hName, hTask, hSignal, hCursor, hSent, hRemoved,
                   committed, rName, rSub, rNext, rEnd, rLast, gcPc, gcCollect>>
    /\ UNCHANGED <<streamVars, eventVars, postVars, migrateVars, authVars, connVars, iterVars, managerVars, ownerVars, roleVars>>

\* .get(db_name) under the read lock: a subscription of the handle found, or on to
\* the write lock
SubscribeGet(s) ==
    /\ rPc[s] = "read"
    /\ lock' = [lock EXCEPT !.readers = @ \ {s}]
    /\ IF handles[rName[s]] # 0
       THEN subscribe(s, handles[rName[s]])
       ELSE /\ rPc' = [rPc EXCEPT ![s] = "vacant"]
            /\ UNCHANGED <<rSub, rNext, rLast>>
    /\ UNCHANGED <<handles, hCount, hName, hTask, hSignal, hCursor, hSent, hRemoved,
                   committed, rName, rEnd, gcPc, gcCollect>>
    /\ UNCHANGED <<streamVars, eventVars, postVars, migrateVars, authVars, connVars, iterVars, managerVars, ownerVars, roleVars>>

\* self.0.write().await
SubscribeWrite(s) ==
    /\ rPc[s] = "vacant"
    /\ lock.writer = "none"
    /\ lock.readers = {}
    /\ lock' = [lock EXCEPT !.writer = s]
    /\ rPc' = [rPc EXCEPT ![s] = "write"]
    /\ UNCHANGED <<handles, hCount, hName, hTask, hSignal, hCursor, hSent, hRemoved,
                   committed, rName, rSub, rNext, rEnd, rLast, gcPc, gcCollect>>
    /\ UNCHANGED <<streamVars, eventVars, postVars, migrateVars, authVars, connVars, iterVars, managerVars, ownerVars, roleVars>>

\* a second lookup that is not made: the entry is taken to be vacant
Entry_vacant(n) == "Vacant"

\* self.0.write().await.entry(db_name): the second lookup, under the write lock
Entry(n) == IF handles[n] # 0 THEN "Occupied" ELSE "Vacant"

\* .entry(db_name) under the write lock: Occupied gives a subscription of the
\* handle; Vacant opens the database, and add_handle spawns the publisher task
\* and makes the handle with its first subscription.  open_readonly_latest fails
\* when no further handle can be made
SubscribeEntry(s) ==
    /\ rPc[s] = "write"
    /\ lock' = [lock EXCEPT !.writer = IF @ = s THEN "none" ELSE @]
    /\ IF Entry(rName[s]) = "Occupied"
       THEN /\ subscribe(s, handles[rName[s]])
            /\ UNCHANGED <<handles, hCount, hName, hTask, hSignal, hCursor, hSent,
                           hRemoved>>
       ELSE IF hCount = Cardinality(HandleIds)
       THEN /\ rPc' = [rPc EXCEPT ![s] = "idle"]
            /\ UNCHANGED <<handles, hCount, hName, hTask, hSignal, hCursor, hSent,
                           hRemoved, rSub, rNext, rLast>>
       ELSE LET h == hCount + 1
            IN  /\ hCount' = h
                /\ handles' = [handles EXCEPT ![rName[s]] = h]
                /\ hName' = [hName EXCEPT ![h] = rName[s]]
                /\ hTask' = [hTask EXCEPT ![h] = "wait"]
                /\ hSignal' = [hSignal EXCEPT ![h] = 0]
                /\ hCursor' = [hCursor EXCEPT ![h] = committed[rName[s]]]
                /\ hSent' = [hSent EXCEPT ![h] = 0]
                /\ hRemoved' = [hRemoved EXCEPT ![h] = ""]
                /\ rSub' = [rSub EXCEPT ![s] = h]
                /\ rNext' = [rNext EXCEPT ![s] = 0]
                /\ rLast' = [rLast EXCEPT ![s] = 0]
                /\ rPc' = [rPc EXCEPT ![s] = "live"]
    /\ UNCHANGED <<committed, rName, rEnd, gcPc, gcCollect>>
    /\ UNCHANGED <<streamVars, eventVars, postVars, migrateVars, authVars, connVars, iterVars, managerVars, ownerVars, roleVars>>

\* one iteration of the live loop of the stream of subscriber s
SubscriptionRecv(s) ==
    /\ rPc[s] = "live"
    /\ recv(s) # "Pending"
    /\ LET result == recv(s)
           h == rSub[s]
           \* a lagged receiver goes on at the oldest message the channel retains
           position == IF result = "Lagged" THEN hSent[h] - Capacity ELSE rNext[s]
       IN  /\ IF LoopContinues(result)
              THEN /\ rPc' = rPc
                   /\ rEnd' = rEnd
              ELSE /\ rPc' = [rPc EXCEPT ![s] = "ended"]
                   /\ rEnd' = [rEnd EXCEPT ![s] = result]
           /\ IF result = "Ok"
              THEN /\ rNext' = [rNext EXCEPT ![s] = position + 1]
                   /\ rLast' = [rLast EXCEPT ![s] = position + 1]
              ELSE /\ rNext' = [rNext EXCEPT ![s] = position]
                   /\ rLast' = rLast
    /\ UNCHANGED <<handles, lock, hCount, hName, hTask, hSignal, hCursor, hSent,
                   hRemoved, committed, rName, rSub, gcPc, gcCollect>>
    /\ UNCHANGED <<streamVars, eventVars, postVars, migrateVars, authVars, connVars, iterVars, managerVars, ownerVars, roleVars>>

\* the response of subscriber s is dropped: its client went away or its stream
\* has ended
StreamDropped(s) ==
    /\ rPc[s] \in {"live", "ended"}
    /\ rPc' = [rPc EXCEPT ![s] = "idle"]
    /\ rSub' = [rSub EXCEPT ![s] = 0]
    /\ rNext' = [rNext EXCEPT ![s] = 0]
    /\ rEnd' = [rEnd EXCEPT ![s] = ""]
    /\ rLast' = [rLast EXCEPT ![s] = 0]
    /\ rName' = [rName EXCEPT ![s] = "tenant"]
    /\ UNCHANGED <<handles, lock, hCount, hName, hTask, hSignal, hCursor, hSent,
                   hRemoved, committed, gcPc, gcCollect>>
    /\ UNCHANGED <<streamVars, eventVars, postVars, migrateVars, authVars, connVars, iterVars, managerVars, ownerVars, roleVars>>

\* a transaction of rows rows commits in database n; the update hook of the
\* publisher's connection signals through its weak sender while the handle lives
Write(n, rows, limit) ==
    /\ committed[n] + rows <= limit
    /\ committed' = [committed EXCEPT ![n] = @ + rows]
    /\ hSignal' = [h \in HandleIds |->
                     IF hName[h] = n /\ hTask[h] = "wait" /\ hRemoved[h] = ""
                     THEN 1 ELSE hSignal[h]]
    /\ UNCHANGED <<handles, lock, hCount, hName, hTask, hCursor, hSent, hRemoved,
                   rPc, rName, rSub, rNext, rEnd, rLast, gcPc, gcCollect>>
    /\ UNCHANGED <<streamVars, eventVars, postVars, migrateVars, authVars, connVars, iterVars, managerVars, ownerVars, roleVars>>

\* the publisher task of handle h: signal_receiver.recv() returns a signal, and
\* send_changes sends the new rows (the task returns when a send finds no
\* receiver); or it returns None, since no sender is left, and the task ends
PublisherTask(h) ==
    /\ hTask[h] = "wait"
    /\ IF hSignal[h] > 0
       THEN LET rows == committed[hName[h]] - hCursor[h]
            IN  /\ hSignal' = [hSignal EXCEPT ![h] = 0]
                /\ IF rows > 0 /\ receiver_count(h) = 0
                   THEN /\ hTask' = [hTask EXCEPT ![h] = "exited"]
                        /\ hCursor' = [hCursor EXCEPT ![h] = 0]
                        /\ hSent' = hSent
                   ELSE /\ hSent' = [hSent EXCEPT ![h] = @ + rows]
                        /\ hCursor' = [hCursor EXCEPT ![h] = @ + rows]
                        /\ hTask' = hTask
       ELSE /\ signal_senders(h) = 0
            /\ hTask' = [hTask EXCEPT ![h] = "exited"]
            /\ hCursor' = [hCursor EXCEPT ![h] = 0]
            /\ UNCHANGED <<hSignal, hSent>>
    /\ UNCHANGED <<handles, lock, hCount, hName, hRemoved, committed, rPc, rName,
                   rSub, rNext, rEnd, rLast, gcPc, gcCollect>>
    /\ UNCHANGED <<streamVars, eventVars, postVars, migrateVars, authVars, connVars, iterVars, managerVars, ownerVars, roleVars>>

\* the GC task wakes and takes the write lock
GcLock ==
    /\ gcPc = "sleep"
    /\ lock.writer = "none"
    /\ lock.readers = {}
    /\ lock' = [lock EXCEPT !.writer = "gc"]
    /\ gcPc' = "collect"
    /\ UNCHANGED <<handles, hCount, hName, hTask, hSignal, hCursor, hSent, hRemoved,
                   committed, rPc, rName, rSub, rNext, rEnd, rLast, gcCollect>>
    /\ UNCHANGED <<streamVars, eventVars, postVars, migrateVars, authVars, connVars, iterVars, managerVars, ownerVars, roleVars>>

\* the first loop of the GC: the names of the orphans
GcCollect ==
    /\ gcPc = "collect"
    /\ gcCollect' = {n \in RegNames :
                       handles[n] # 0 /\ DatabaseHandle_is_orphan(handles[n])}
    /\ lock' = [lock EXCEPT !.writer = LockAfterCollect(@)]
    /\ gcPc' = "remove"
    /\ UNCHANGED <<handles, hCount, hName, hTask, hSignal, hCursor, hSent, hRemoved,
                   committed, rPc, rName, rSub, rNext, rEnd, rLast>>
    /\ UNCHANGED <<streamVars, eventVars, postVars, migrateVars, authVars, connVars, iterVars, managerVars, ownerVars, roleVars>>

\* the second loop of the GC: the collected names are removed, their handles
\* dropped, and the lock is given back
GcRemoveMap ==
    /\ gcPc = "remove"
    /\ handles' = [n \in RegNames |-> IF n \in gcCollect THEN 0 ELSE handles[n]]
    /\ hRemoved' = [h \in HandleIds |->
                      IF \E n \in gcCollect : handles[n] = h THEN "gc"
                      ELSE hRemoved[h]]
    /\ lock' = [lock EXCEPT !.writer = IF @ = "gc" THEN "none" ELSE @]
    /\ gcPc' = "sleep"
    /\ gcCollect' = {}
    /\ UNCHANGED <<hCount, hName, hTask, hSignal, hCursor, hSent, committed, rPc,
                   rName, rSub, rNext, rEnd, rLast>>
    /\ UNCHANGED <<streamVars, eventVars, postVars, migrateVars, authVars, connVars, iterVars, ownerVars, roleVars>>

\* the pass of a GC task whose registry stays referenced
GcRemove == GcRemoveMap /\ UNCHANGED managerVars

\* kill_connection(db_name) on a database with a handle: the handle is removed
\* under the write lock and dropped
KillConnection(n) ==
    /\ lock.writer = "none"
    /\ lock.readers = {}
    /\ handles[n] # 0
    /\ handles' = [handles EXCEPT ![n] = 0]
    /\ hRemoved' = [hRemoved EXCEPT ![handles[n]] = "kill"]
    /\ UNCHANGED <<lock, hCount, hName, hTask, hSignal, hCursor, hSent, committed,
                   rPc, rName, rSub, rNext, rEnd, rLast, gcPc, gcCollect>>
    /\ UNCHANGED <<streamVars, eventVars, postVars, migrateVars, authVars, connVars, iterVars, managerVars, ownerVars, roleVars>>

NextRegistry ==
    \/ \E s \in Subscribers, n \in RegNames : Subscribe(s, n)
    \/ \E s \in Subscribers : SubscribeRead(s)
    \/ \E s \in Subscribers : SubscribeGet(s)
    \/ \E s \in Subscribers : SubscribeWrite(s)
    \/ \E s \in Subscribers : SubscribeEntry(s)
    \/ \E s \in Subscribers : StreamDropped(s)
    \/ GcLock
    \/ GcCollect
    \/ GcRemove

(* ----------------------------------------------- ChangeManager and GC task *)

\* ChangeManager values in one behaviour
MaxClones == 2

\* a GC task that keeps an Arc of the registry
Arc_clone(count) == count + 1

\* Arc::downgrade(&handles): the weak reference leaves the strong count alone
Arc_downgrade(count) == count

\* ChangeManager::new: the Arc is created, downgraded for the GC task, and
\* returned in Self
ManagerInit ==
    /\ clones = 1
    /\ strong = Arc_downgrade(1)
    /\ gcTask = "sleep"

\* subscribe borrows a ChangeManager until it returns
Borrowed == {s \in Subscribers : rPc[s] \in {"subscribe", "read", "vacant", "write"}}

\* stream_changes on a ChangeManager that is alive
ManagerSubscribe(s) ==
    /\ clones > 0
    /\ Subscribe(s, "tenant")

\* #[derive(Clone)]: the Arc is cloned
ManagerClone ==
    /\ clones > 0
    /\ clones < MaxClones
    /\ clones' = clones + 1
    /\ strong' = strong + 1
    /\ UNCHANGED gcTask
    /\ UNCHANGED <<streamVars, eventVars, postVars, migrateVars, authVars, registryVars,
                   connVars, iterVars, ownerVars, roleVars>>

\* a ChangeManager is dropped; the last one only when no call borrows it
ManagerDrop ==
    /\ clones > 0
    /\ clones = 1 => Borrowed = {}
    /\ clones' = clones - 1
    /\ strong' = strong - 1
    /\ UNCHANGED gcTask
    /\ UNCHANGED <<streamVars, eventVars, postVars, migrateVars, authVars, registryVars,
                   connVars, iterVars, ownerVars, roleVars>>

\* the sleep of the GC task ends: gc_handles.upgrade() is Some while the strong
\* count is not 0, and None makes the task return
GcWake ==
    /\ gcTask = "sleep"
    /\ IF strong > 0
       THEN /\ gcTask' = "pass"
            /\ strong' = strong + 1
       ELSE /\ gcTask' = "returned"
            /\ strong' = strong
    /\ UNCHANGED clones
    /\ UNCHANGED <<streamVars, eventVars, postVars, migrateVars, authVars, registryVars,
                   connVars, iterVars, ownerVars, roleVars>>

\* handles.write().await of the task that holds the upgraded Arc
GcPassLock ==
    /\ gcTask = "pass"
    /\ GcLock

\* the end of the Some arm: the collected names are removed, and the lock guard
\* and the upgraded Arc are dropped
GcPassEnd ==
    /\ gcTask = "pass"
    /\ GcRemoveMap
    /\ gcTask' = "sleep"
    /\ strong' = strong - 1
    /\ UNCHANGED clones

NextManager ==
    \/ \E s \in Subscribers : ManagerSubscribe(s)
    \/ \E s \in Subscribers : SubscribeRead(s)
    \/ \E s \in Subscribers : SubscribeGet(s)
    \/ \E s \in Subscribers : SubscribeWrite(s)
    \/ \E s \in Subscribers : SubscribeEntry(s)
    \/ \E s \in Subscribers : StreamDropped(s)
    \/ ManagerClone
    \/ ManagerDrop
    \/ GcWake
    \/ GcPassLock
    \/ GcCollect
    \/ GcPassEnd

NextKill ==
    \/ \E s \in Subscribers, n \in RegNames : Subscribe(s, n)
    \/ \E s \in Subscribers : SubscribeRead(s)
    \/ \E s \in Subscribers : SubscribeGet(s)
    \/ \E s \in Subscribers : SubscribeWrite(s)
    \/ \E s \in Subscribers : SubscribeEntry(s)
    \/ \E s \in Subscribers : SubscriptionRecv(s)
    \/ \E s \in Subscribers : StreamDropped(s)
    \/ Write("tenant", 1, MaxRows)
    \/ \E h \in HandleIds : PublisherTask(h)
    \/ \E n \in RegNames : KillConnection(n)

NextShutdown ==
    \/ \E s \in Subscribers : Subscribe(s, "tenant")
    \/ \E s \in Subscribers : SubscribeRead(s)
    \/ \E s \in Subscribers : SubscribeGet(s)
    \/ \E s \in Subscribers : SubscribeWrite(s)
    \/ \E s \in Subscribers : SubscribeEntry(s)
    \/ \E s \in Subscribers : SubscriptionRecv(s)
    \/ \E s \in Subscribers : StreamDropped(s)
    \/ Write("tenant", 1, MaxRows)
    \/ \E h \in HandleIds : PublisherTask(h)
    \/ GcLock
    \/ GcCollect
    \/ GcRemove

NextLag ==
    \/ \E s \in Subscribers : Subscribe(s, "tenant")
    \/ \E s \in Subscribers : SubscribeRead(s)
    \/ \E s \in Subscribers : SubscribeGet(s)
    \/ \E s \in Subscribers : SubscribeWrite(s)
    \/ \E s \in Subscribers : SubscribeEntry(s)
    \/ \E s \in Subscribers : SubscriptionRecv(s)
    \/ \E s \in Subscribers : StreamDropped(s)
    \/ \E rows \in {Capacity, Capacity + MaxRows} :
            Write("tenant", rows, 2 * Capacity + MaxRows)
    \/ \E h \in HandleIds : PublisherTask(h)

Init ==
    StreamInit /\ PostInit /\ MigrateInit /\ AuthInit /\ RegistryInit /\ ConnInit
      /\ IterInit /\ ManagerInit /\ OwnerInit
      /\ RoleInit

Next ==
    \/ \E tx \in Transactions : Commit(tx)
    \/ \E s \in Streams, q \in Queries : StreamChanges(s, q)
    \/ \E s \in Streams : CatchUpPage(s)
    \/ \E s \in Streams : LiveRecv(s)
    \/ \E s \in Streams : Disconnect(s)
    \/ PublisherSendPage
    \/ PublisherWake
    \/ GC

Spec == Init /\ [][Next]_vars

SpecPost == Init /\ [][NextPost]_vars

SpecMigrate == Init /\ [][NextMigrate]_vars

SpecBroadcast == Init /\ [][NextBroadcast]_vars

SpecAuth == Init /\ [][NextAuth]_vars

SpecRegistry == Init /\ [][NextRegistry]_vars

\* the publisher tasks and the streams are tasks of the runtime: each is polled
\* again while it can make a step
SpecKill ==
    /\ Init
    /\ [][NextKill]_vars
    /\ \A h \in HandleIds : WF_vars(PublisherTask(h))
    /\ \A s \in Subscribers : WF_vars(SubscriptionRecv(s))

SpecLag == Init /\ [][NextLag]_vars

SpecSync == Init /\ [][NextSync]_vars

\* the publisher task is polled whenever its receive or its drain can go on
SpecSignal ==
    /\ Init
    /\ [][NextSignal]_vars
    /\ WF_vars(PublisherWake)
    /\ WF_vars(PublisherSendPage)

\* the tasks of the runtime are polled again whenever they can go on, and the
\* write lock of the tokio RwLock is handed out in the order of the requests, so
\* the GC task that keeps asking for it gets it
SpecShutdown ==
    /\ Init
    /\ [][NextShutdown]_vars
    /\ \A h \in HandleIds : WF_vars(PublisherTask(h))
    /\ \A s \in Subscribers : WF_vars(SubscribeGet(s)) /\ WF_vars(SubscribeEntry(s))
    /\ SF_vars(GcLock)
    /\ WF_vars(GcCollect)
    /\ WF_vars(GcRemove)

\* the GC task is a task of the runtime: its sleep ends, and it is given the
\* write lock once nobody holds it
SpecManager ==
    /\ Init
    /\ [][NextManager]_vars
    /\ WF_vars(GcWake)
    /\ SF_vars(GcPassLock)
    /\ WF_vars(GcCollect)
    /\ WF_vars(GcPassEnd)
    /\ \A s \in Subscribers : WF_vars(SubscribeGet(s)) /\ WF_vars(SubscribeEntry(s))

SpecOwner == Init /\ [][NextOwner]_vars

SpecDenied == Init /\ [][NextDenied]_vars

SpecRole == Init /\ [][NextRole]_vars

SpecConn == Init /\ [][NextConn]_vars

SpecPages == Init /\ [][NextPages]_vars

(* ------------------------------------------- properties of the streaming *)

\* the ids of the change rows sent to the client of stream s
Delivered(s) == {received[s][i].change.id : i \in 1..Len(received[s])}

\* stream s is live and nothing is on its way to it: its queue is empty and the
\* publisher has no drain running or pending
Settled(s) ==
    /\ pc[s] = "live"
    /\ queue[s] = <<>>
    /\ pubPc # "drain"
    /\ signal = 0

\* P.read_table(cs.table) /\ cs.db_version > v, for the query of stream s
Authorized(s, cs) ==
    /\ read_table(query[s].permissions, cs.table)
    /\ cs.db_version > query[s].db_version

\* C1: a stream opened with site S, baseline v and permissions P is sent a committed
\* change cs of another site if and only if P.read_table(cs.table) and
\* cs.db_version > v: it is never sent another one, and once nothing is on its way
\* it has been sent every such change.
C1_ReceivesIffAuthorized ==
    \A s \in Streams : \A i \in 1..Len(log) :
        LET cs == Changeset(log[i])
        IN  cs.site_id # query[s].site_id =>
              /\ cs.id \in Delivered(s) => Authorized(s, cs)
              /\ Settled(s) /\ Authorized(s, cs) => cs.id \in Delivered(s)

\* C2: no gap between catch-up and live: once nothing is on its way to a live
\* stream, every change committed after its subscribe() returned that it is
\* authorized for has been sent to it, by the catch-up read or by the live loop.
C2_NoGap ==
    \A s \in Streams : \A i \in 1..Len(log) :
        LET cs == Changeset(log[i])
        IN  ( /\ Settled(s)
              /\ cs.db_version > subAt[s]
              /\ cs.site_id # query[s].site_id
              /\ Authorized(s, cs) ) => cs.id \in Delivered(s)

\* C3: exactly once: no change row is sent twice to the same stream, neither by
\* catch-up and live together nor twice by the live loop.
C3_ExactlyOnce ==
    \A s \in Streams : \A i, j \in 1..Len(received[s]) :
        i # j => received[s][i].change.id # received[s][j].change.id

\* C3, its case: the live loop dropped a broadcast row that catch-up had sent
C3_Witness ==
    \E s \in Streams :
        /\ dropped[s]
        /\ \E i \in 1..Len(received[s]) : received[s][i].phase = "live"

\* C4: the db_version values of the change events of a stream, catch-up followed
\* by live, are non-decreasing.
C4_NonDecreasing ==
    \A s \in Streams : \A i, j \in 1..Len(received[s]) :
        i < j => received[s][i].change.db_version <= received[s][j].change.db_version

\* C4, its case: catch-up events followed by live events of a later db_version
C4_Witness ==
    \E s \in Streams : \E i, j \in 1..Len(received[s]) :
        /\ i < j
        /\ received[s][i].phase = "catchup"
        /\ received[s][j].phase = "live"
        /\ received[s][i].change.db_version < received[s][j].change.db_version

\* C5: no change whose site_id, as carried in the Changeset, equals the site_id
\* of the stream's query is sent to it, in catch-up or live.
C5_NoOwnSite ==
    \A s \in Streams : \A i \in 1..Len(received[s]) :
        received[s][i].change.site_id # query[s].site_id

\* C6: two concurrent streams of the same database opened with the same
\* permissions, site id and baseline have been sent the same set of changes once
\* nothing is on its way to either.
C6_SameDelivery ==
    \A s, t \in Streams :
        (Settled(s) /\ Settled(t) /\ query[s] = query[t]) =>
            Delivered(s) = Delivered(t)

(* --------------------------------------------- properties of apply_changes *)

\* C7: apply_changes is all-or-nothing: when a row of the batch is rejected
\* (Unauthorized) or fails to insert, no row of the batch, the rows before the
\* failing one included, is in the database afterwards.
C7_AllOrNothing ==
    postPc \in {"unauthorized", "error"} => applied = <<>>

\* the one capability the class of a row asks for
RequiredCapability(changeset) ==
    CASE changeset.cid = "__crsql_del" -> "delete"
      [] changeset.cid # "__crsql_del" /\ changeset.col_version = 1 -> "insert"
      [] OTHER -> "update"

\* permissions grant capability on table t: Full, or the capability on the
\* database, or on the table
Holds(permissions, capability, t) ==
    \/ permissions.full
    \/ permissions.database[capability]
    \/ /\ t \in DOMAIN permissions.tables
       /\ (permissions.tables[t].full \/ permissions.tables[t].p[capability])

\* C8: apply_changes authorizes a row by the one capability of its class: delete
\* for cid "__crsql_del", else insert for col_version 1, else update.  A request
\* ends Unauthorized exactly on a row whose required capability is missing, naming
\* the table of that row; every row that went through held its required
\* capability, and a row that holds it is never rejected for another capability.
C8_OneCapabilityPerRow ==
    /\ \A i \in 1..postIdx :
          Holds(postPermissions, RequiredCapability(postChanges[i]),
                postChanges[i].table)
    /\ postPc = "unauthorized" =>
          /\ ~Holds(postPermissions, RequiredCapability(postChanges[postIdx + 1]),
                    postChanges[postIdx + 1].table)
          /\ postTable = postChanges[postIdx + 1].table
    /\ (postPc = "running" /\ postIdx < Len(postChanges)
          /\ ~Holds(postPermissions, RequiredCapability(postChanges[postIdx + 1]),
                    postChanges[postIdx + 1].table))
          => ~ENABLED (\E inserted \in BOOLEAN :
                          ApplyRow(inserted) /\ postPc' # "unauthorized")
    /\ postPc = "ok" => applied = postChanges

\* C8, its case: a row went through on its required capability alone, the other
\* two missing on its table, before a later row of the batch was rejected
C8_Witness ==
    /\ postPc = "unauthorized"
    /\ \E i \in 1..postIdx :
          \A capability \in {"insert", "update", "delete"} :
              Holds(postPermissions, capability, postChanges[i].table)
                 <=> capability = RequiredCapability(postChanges[i])

(* ------------------------------------------- properties of apply_migration *)

\* the statements request r has left in the schema
SchemaOf(r) == SelectSeq(schema, LAMBDA e : e.request = r)

\* the rows request r has left in crr_server_migrations
LogOf(r) == SelectSeq(migrations, LAMBDA row : row.request = r)

\* C9: apply_migration on a Database whose permissions are not full() returns
\* Unauthorized and leaves the database unchanged: no statement of the batch is
\* executed and no row is appended to crr_server_migrations.
C9_NotFullUnauthorized ==
    \A r \in Requests :
        (mPc[r] # "idle" /\ ~mPermissions[r].full) =>
            /\ mPc[r] = "done"
            /\ mResult[r].status = "Unauthorized"
            /\ SchemaOf(r) = <<>>
            /\ LogOf(r) = <<>>

\* C9, its case: a request that holds every capability on the database without
\* being Full was turned down while the migration of a Full request committed
C9_Witness ==
    \E r, q \in Requests :
        /\ mResult[r].status = "Unauthorized"
        /\ mPermissions[r] = AllCapabilities
        /\ LogOf(q) # <<>>

\* C10: apply_migration is atomic and its log strictly increasing: either the
\* whole rewritten batch is executed and exactly one row with the joined SQL is
\* appended, or neither schema changes nor a log row persist; the version returned
\* is the row id of the appended row and is strictly greater than every version
\* returned before for the database, also when migrations are posted concurrently.
C10_AtomicAndIncreasing ==
    /\ \A r \in Requests :
          LET statements == crr_migrations(mQueries[r])
          IN  \/ /\ SchemaOf(r) = <<>>
                 /\ LogOf(r) = <<>>
              \/ /\ mResult[r].status # "Error"
                 /\ [i \in 1..Len(SchemaOf(r)) |-> SchemaOf(r)[i].sql] = statements
                 /\ Len(LogOf(r)) = 1
                 /\ LogOf(r)[1].sql = join(statements, ";\n")
    /\ \A r \in Requests :
          mResult[r].status = "Ok" =>
              /\ Len(LogOf(r)) = 1
              /\ mResult[r].version = LogOf(r)[1].version
    /\ \A i, j \in 1..Len(migrations) :
          i < j => migrations[i].version < migrations[j].version
    /\ \A i, j \in 1..Len(returned) :
          i < j => returned[i] < returned[j]

\* part occurs in sql as a contiguous run of pieces
Contains(sql, part) ==
    \E i \in 1..Len(sql) :
        /\ i + Len(part) - 1 <= Len(sql)
        /\ SubSeq(sql, i, i + Len(part) - 1) = part

\* stream s opened with schema version 0, is live and has read every message sent
Caught(s) ==
    /\ pc[s] = "live"
    /\ queue[s] = <<>>
    /\ query[s].schema_version = 0

\* C11: a stream opened with schema_version = 0 on a database that had no
\* migration is sent, once CREATE TABLE foo (bar text) has been posted to migrate
\* and answered, a migration event with version 1 whose SQL is the rewritten batch
\* and contains crsql_as_crr('foo'); the migration is the only one of the database.
C11_MigrationBroadcast ==
    \A s \in Streams, r \in Requests :
        (/\ Caught(s)
         /\ mPc[r] = "done"
         /\ mResult[r].status = "Ok"
         /\ mResult[r].version = 1
         /\ Len(migrations) = 1
         /\ mQueries[r] = <<CreateFooBare>>) =>
            \E i \in 1..Len(migration_events[s]) :
                /\ migration_events[s][i].version = 1
                /\ migration_events[s][i].sql = join(crr_migrations(mQueries[r]), ";\n")
                /\ Contains(migration_events[s][i].sql,
                            <<"SELECT crsql_as_crr('", "foo", "')">>)

\* result holds exactly the rows of the log with version > since, each once and
\* in the order of their versions
ExactlyNewer(result, rows, since) ==
    /\ \A i \in 1..Len(rows) :
          rows[i].version > since =>
              \E j \in 1..Len(result) :
                  /\ result[j] = Migration(rows[i].version, rows[i].sql)
                  /\ \A k \in 1..Len(result) :
                        result[k].version = rows[i].version => k = j
    /\ \A j \in 1..Len(result) :
          /\ result[j].version > since
          /\ \E i \in 1..Len(rows) :
                result[j] = Migration(rows[i].version, rows[i].sql)
    /\ \A j, k \in 1..Len(result) : j < k => result[j].version < result[k].version
    /\ (result = <<>>) <=> ~(\E i \in 1..Len(rows) : rows[i].version > since)

\* C12: migrations(since) returns exactly the logged migrations with version >
\* since, each once, ordered by version; it is empty if and only if no migration
\* with version > since exists.  Checked on the call every stream makes when it is
\* opened.
C12_MigrationsSince ==
    [][\A s \in Streams :
          (pc[s] = "idle" /\ pc'[s] = "catchup") =>
              ExactlyNewer(migration_events'[s], migrations, query'[s].schema_version)]_vars

\* C12, its case: a stream opened with schema version 1 on a log of two migrations
\* was handed the second one alone
C12_Witness ==
    \E s \in Streams :
        /\ pc[s] = "catchup"
        /\ query[s].schema_version = 1
        /\ Len(migrations) = 2
        /\ Len(migration_events[s]) = 1
        /\ migration_events[s][1].version = 2

\* C13: every request that names the database auth or sync fails with the
\* ReservedName error before any tenant database file is opened or created, on
\* every route that resolves permissions (stream, post changes, run, migrate) and
\* for every token, the admin token included.
C13_ReservedNameRejected ==
    /\ \A r \in Requests :
          (aPc[r] # "idle" /\ aRequest[r].db_name \in RESERVED_NAMES) =>
              aResult[r].kind = "ReservedName"
    /\ opened \cap RESERVED_NAMES = {}

\* the variants of CRRError raised by parsing and validation
ParseErrors ==
    {"JsonError", "Base64DecodeError", "InvalidURLError", "ParserError", "PathRejection"}

\* C14: the errors of request handlers map to HTTP statuses: Unauthorized to 401,
\* ReservedName to 400, the parsing and validation errors (Json, Base64Decode,
\* InvalidURL, Parser, PathRejection) to 400, and every other error to 500 with a
\* redacted message that carries no detail of the underlying error.
C14_ErrorStatus ==
    \A r \in Requests :
        (aPc[r] = "done" /\ aResult[r].kind # "Ok") =>
            IF aResult[r].kind = "Unauthorized"
            THEN aResponse[r].status_code = 401
            ELSE IF aResult[r].kind \in ParseErrors \cup {"ReservedName"}
            THEN aResponse[r].status_code = 400
            ELSE /\ aResponse[r].status_code = 500
                 /\ aResponse[r].message = "Internal Server Error"

\* table t passes the table filter built from the AllowedTables a
Admits(a, t) == a.all \/ t \in a.names

\* C15: readable_tables() returns All when the permissions are Full or the
\* database-level read capability holds; otherwise it returns exactly the set of
\* the tables whose table-level read capability holds, so that a table t is
\* admitted by readable_tables() if and only if read_table(t); a table that carries
\* only insert, update or delete capability is not in the set.  Checked on the
\* permissions of every stream that was opened.
C15_ReadableTables ==
    \A s \in Streams :
        pc[s] \in {"live", "closed"} =>
            LET P == query[s].permissions
                allowed == readable_tables(P)
            IN  /\ (P.full \/ P.database.read) => allowed = AllowedTables_All
                /\ ~(P.full \/ P.database.read) =>
                       allowed = AllowedTables_Some(
                                     {t \in Tables \cup {MigrationLog} : read_table(P, t)})
                /\ \A t \in Tables \cup {MigrationLog} :
                       Admits(allowed, t) <=> read_table(P, t)

\* the capability the table map of P holds for table t
TableCapability(P, capability, t) ==
    /\ t \in DOMAIN P.tables
    /\ (P.tables[t].full \/ P.tables[t].p[capability])

\* C16: for Partial permissions each table predicate (read_table, insert_table,
\* update_table, delete_table) equals the disjunction of the database-level
\* capability and that table's capability; for Full every predicate is true for
\* every table; for the empty partial (no database capability, empty table map)
\* every predicate is false for every table and is_empty() is true.  Checked on
\* the permissions of every request that posts changes.
C16_PermissionPredicates ==
    postPc # "idle" =>
        LET P == postPermissions
        IN  \A t \in Tables :
                /\ ~P.full =>
                      /\ read_table(P, t) <=>
                            (P.database.read \/ TableCapability(P, "read", t))
                      /\ insert_table(P, t) <=>
                            (P.database.insert \/ TableCapability(P, "insert", t))
                      /\ update_table(P, t) <=>
                            (P.database.update \/ TableCapability(P, "update", t))
                      /\ delete_table(P, t) <=>
                            (P.database.delete \/ TableCapability(P, "delete", t))
                /\ P.full =>
                      /\ read_table(P, t) /\ insert_table(P, t)
                      /\ update_table(P, t) /\ delete_table(P, t)
                /\ (~P.full /\ PartialPermissions_is_empty(P.database)
                      /\ DOMAIN P.tables = {}) =>
                      /\ ~read_table(P, t) /\ ~insert_table(P, t)
                      /\ ~update_table(P, t) /\ ~delete_table(P, t)
                      /\ is_empty(P)

\* C16, its case: a request whose only insert capability is the one of table bar
\* had a row of bar go through apply_changes
C16_Witness ==
    /\ postPermissions = ReadFooInsertBar
    /\ postIdx >= 1
    /\ postChanges[1].table = "bar"
    /\ ~postPermissions.database.insert

\* C17: a GC sweep removes every handle whose receiver count is zero at the time
\* of the sweep and never one that has a subscriber, and no interleaving with a
\* concurrent subscribe() yields a subscription on a handle the GC removed.
C17_GcSweep ==
    [][/\ (gcPc = "collect" /\ gcPc' = "remove") =>
              gcCollect' = {n \in RegNames :
                              handles[n] # 0 /\ receiver_count(handles[n]) = 0}
       /\ (gcPc = "remove" /\ gcPc' = "sleep") =>
              \A n \in RegNames :
                  /\ n \in gcCollect => handles'[n] = 0
                  /\ n \notin gcCollect => handles'[n] = handles[n]
                  /\ (handles[n] # 0 /\ handles'[n] = 0) =>
                        receiver_count(handles[n]) = 0
       /\ \A s \in Subscribers :
              rPc'[s] = "live" => hRemoved'[rSub'[s]] # "gc"]_vars

\* C17, its case: the GC holds the lock and is about to remove the orphaned
\* handle of a database while a subscribe() for that database waits for the lock
C17_Witness ==
    /\ gcPc = "remove"
    /\ \E s \in Subscribers :
          /\ rPc[s] = "subscribe"
          /\ rName[s] \in gcCollect

\* the stream of subscriber s waits in recv() on the channel of a killed handle
KilledSubscription(s) ==
    /\ rPc[s] = "live"
    /\ rSub[s] \in HandleIds
    /\ hRemoved[rSub[s]] = "kill"

\* C18: after kill_connection(db_name) the registry holds no handle for db_name
\* and the handles of the other databases are unchanged; every subscriber of the
\* killed handle eventually observes the end of the stream on recv(), so that its
\* stream terminates: no stream stays subscribed to a killed handle for ever.
C18_KillConnection ==
    /\ [][\A h \in HandleIds :
              (hRemoved[h] = "" /\ hRemoved'[h] = "kill") =>
                  /\ handles'[hName[h]] = 0
                  /\ \A n \in RegNames \ {hName[h]} : handles'[n] = handles[n]]_vars
    /\ \A s \in Subscribers : []<>~KilledSubscription(s)

\* C18, its case: the stream of a subscriber of a killed handle has ended on the
\* closed channel while the handle of the other database is still registered
C18_Witness ==
    \E h \in HandleIds, s \in Subscribers, n \in RegNames :
        /\ hRemoved[h] = "kill"
        /\ rSub[s] = h
        /\ rPc[s] = "ended"
        /\ rEnd[s] = "Closed"
        /\ n # hName[h]
        /\ handles[n] # 0

\* C19: a subscriber that is more than 32 messages behind gets a lagged error on
\* its next recv() and its stream terminates; it is never delivered a later
\* message after one that was overwritten: every message delivered is the
\* successor of the one delivered before.
C19_Backpressure ==
    [][\A s \in Subscribers :
          (rPc[s] = "live" /\ rPc'[s] # "idle") =>
              /\ (/\ hSent[rSub[s]] - rNext[s] > Capacity
                  /\ (rNext'[s] # rNext[s] \/ rPc'[s] = "ended")) =>
                     /\ rPc'[s] = "ended"
                     /\ rEnd'[s] = "Lagged"
                     /\ rLast'[s] = rLast[s]
              /\ rLast'[s] # rLast[s] => rLast'[s] = rLast[s] + 1]_vars

\* C19, its case: a stream that had read some of the messages ended on the
\* lagged error once more than 32 messages it had not read were sent
C19_Witness ==
    \E s \in Subscribers :
        /\ rPc[s] = "ended"
        /\ rEnd[s] = "Lagged"
        /\ rLast[s] > 0
        /\ hSent[rSub[s]] - rLast[s] > Capacity

\* the rows a database holds after the changes of the sequence were merged into
\* it: a change that is merged again changes nothing
RowsOf(changes) == {changes[i].id : i \in 1..Len(changes)}

C21_Authorizer ==
    connPc = "decided" =>
        LET c == connContext
            P == connPermissions
        IN  IF full(P)
            THEN connAuthorizer = "None" /\ connDecision = "Allow"
            ELSE CASE c.action \in {"Select", "Transaction"} -> connDecision = "Allow"
                   [] c.action = "Function" /\ c.function_name \in AllowListed ->
                        connDecision = "Allow"
                   [] c.action = "Read" ->
                        (connDecision = "Allow") = read_table(P, c.table_name)
                   [] c.action = "Update" ->
                        (connDecision = "Allow") = update_table(P, c.table_name)
                   [] c.action = "Insert" ->
                        (connDecision = "Allow") = insert_table(P, c.table_name)
                   [] c.action = "Delete" ->
                        (connDecision = "Allow") = delete_table(P, c.table_name)
                   [] OTHER -> connDecision = "Deny"

\* the publisher task of handle h is running
Running(h) == hTask[h] = "wait"

\* C22: in every reachable state each database name has at most one handle in
\* the registry and every handle in the registry has exactly one running
\* publisher task; subscribe() never returns a subscription on a handle whose
\* publisher task has already exited.
C22_RegistryPublisher ==
    /\ [](\A n \in RegNames : handles[n] # 0 =>
             /\ Running(handles[n])
             /\ \A o \in RegNames : handles[o] = handles[n] => o = n)
    /\ [][\A s \in Subscribers :
             (rPc[s] # "live" /\ rPc'[s] = "live") => hTask[rSub'[s]] # "exited"]_vars

\* C23: when several subscribe() calls for the same database run concurrently
\* with no handle registered, add_handle is executed once, for a name that has
\* no handle, and every call returns a subscription on the channel of the one
\* handle registered for the name.
C23_ConcurrentFirst ==
    /\ [](\A s \in Subscribers : rPc[s] = "live" => rSub[s] = handles[rName[s]])
    /\ [][hCount' # hCount =>
            \E n \in RegNames : handles[n] = 0 /\ handles'[n] = hCount'
                                 /\ hCount' = hCount + 1]_vars

\* a call that missed the handle under the read lock holds the write lock while
\* the handle another call has added is registered and subscribed to
C23_Witness ==
    \E s \in Subscribers, o \in Subscribers :
        /\ s # o
        /\ rPc[o] = "write"
        /\ rName[o] = rName[s]
        /\ rPc[s] = "live"
        /\ rSub[s] = handles[rName[o]]
        /\ rSub[s] # 0

\* C24: after the last subscriber of a database has dropped its subscription,
\* the publisher task eventually terminates, at its next broadcast send or, with
\* no further commit, once the handle is removed from the registry and the
\* signal channel closes; a terminated task stays terminated and the update hook
\* no longer signals it.
C24_PublisherShutdown ==
    /\ \A h \in HandleIds :
          <>[](hTask[h] # "none" /\ receiver_count(h) = 0) => <>(hTask[h] = "exited")
    /\ [][\A h \in HandleIds :
             hTask[h] = "exited" => hTask'[h] = "exited" /\ hSignal'[h] = hSignal[h]]_vars

\* a publisher task has terminated on the closed signal channel: its handle was
\* collected by the GC and no row was ever committed
C24_Witness ==
    \E h \in HandleIds :
        /\ hTask[h] = "exited"
        /\ hRemoved[h] = "gc"
        /\ committed[hName[h]] = 0

\* C25: the update hook never blocks, and for every commit that fires the hook
\* while the publisher task is alive a wake-up is pending after the commit and
\* the publisher eventually starts a drain after it, also when the commit comes
\* during a drain or while a signal is already pending.
C25_NoLostWakeup ==
    /\ [][(log' # log /\ PublisherAlive) => signal' = 1]_vars
    /\ [][(signal = 1 /\ signal' = 0 /\ PublisherAlive') => pubPc' = "drain"]_vars
    /\ [](signal = 1 /\ PublisherAlive => <>(signal = 0 \/ ~PublisherAlive))

\* a commit came during a drain: the publisher is draining and the signal it took
\* when it woke is buffered again
C25_Witness ==
    /\ pubPc = "drain"
    /\ signal = 1
    /\ crsql_dbversion(log) > pubCursor

RECURSIVE BufferSize(_, _)
\* the cumulative size() of the first k rows of a query result
BufferSize(rows, k) ==
    IF k = 0 THEN 0 ELSE BufferSize(rows, k - 1) + size(Changeset(rows[k]))

\* a call of load_page has returned a page and no failure struck it
Loaded(kind) ==
    /\ itPc = "iter"
    /\ itKind = kind
    /\ itLoads > 0
    /\ itLoad.ok
    /\ ~itLoad.struck

\* the page of the load ends between two commits
NoSplit(load) ==
    LET n == Len(load.buffer)
    IN  (n > 0 /\ n < Len(load.rows)) =>
            load.rows[n + 1].db_version > load.rows[n].db_version

\* the page of the load was closed on an exceeded budget before a later commit
ClosedOnlyWhen(load) ==
    LET n == Len(load.buffer)
    IN  load.has_next_page =>
            /\ BufferSize(load.rows, n) > CHANGE_BUFFER_SIZE
            /\ n < Len(load.rows)
            /\ load.rows[n + 1].db_version > load.rows[n].db_version

\* C26: for the selective read of the stream endpoint and for the full read of
\* the publisher, a page boundary never falls between two rows of the same
\* db_version; a page is closed only when the byte budget is exceeded and the
\* db_version of the next row is greater than that of the last buffered row.
C26_NeverSplit ==
    \A kind \in {"changes", "all_changes"} :
        Loaded(kind) => NoSplit(itLoad) /\ ClosedOnlyWhen(itLoad)

\* the cumulative size of the first k rows of the load is exactly the budget, row
\* k is the last row of its db_version and a row of a later db_version follows
ExactlyAt(load, k) ==
    /\ k < Len(load.rows)
    /\ BufferSize(load.rows, k) = CHANGE_BUFFER_SIZE
    /\ load.rows[k + 1].db_version > load.rows[k].db_version

\* after row k the budget is exceeded and a row of a later db_version follows
ClosesAt(load, k) ==
    /\ k < Len(load.rows)
    /\ BufferSize(load.rows, k) > CHANGE_BUFFER_SIZE
    /\ load.rows[k + 1].db_version > load.rows[k].db_version

\* C27, as stated: a change page whose cumulative size() exactly equals
\* CHANGE_BUFFER_SIZE on the last row of a db_version is closed at that row, with
\* has_next_page = true, and the next row is the first row of the next page.
C27_ClosedAtBudget ==
    Loaded("changes") =>
        \A k \in 1..Len(itLoad.rows) :
            ExactlyAt(itLoad, k) => Len(itLoad.buffer) = k /\ itLoad.has_next_page

\* C27, amended: a page of the selective read whose cumulative size() exactly
\* equals CHANGE_BUFFER_SIZE on the last row of a db_version is not closed at that
\* row; the page is closed, with has_next_page = true, at the first row after
\* which the cumulative size is greater than CHANGE_BUFFER_SIZE and the next row
\* has a greater db_version, and it takes the whole result when there is none.
C27_ClosedOverBudget ==
    Loaded("changes") =>
        LET n == Len(itLoad.buffer)
        IN  /\ \A k \in 1..Len(itLoad.rows) : ExactlyAt(itLoad, k) => n > k
            /\ \A k \in 1..Len(itLoad.rows) : ClosesAt(itLoad, k) => n <= k
            /\ itLoad.has_next_page = (n < Len(itLoad.rows))
            /\ n < Len(itLoad.rows) => ClosesAt(itLoad, n)

\* a page of the selective read went on past a row at which its size was exactly
\* the budget
C27_Witness ==
    /\ Loaded("changes")
    /\ \E k \in 1..Len(itLoad.rows) :
          ExactlyAt(itLoad, k) /\ Len(itLoad.buffer) > k

\* the loop of the load ended because rows.next() found no further row
ReachedEnd(load) ==
    /\ Len(load.buffer) = Len(load.rows)
    /\ (itKind = "all_changes" => ~Exceeds(BufferSize(load.rows, Len(load.rows))))

\* C28: a page load that reaches the end of the query result reports
\* has_next_page = false, also when the tail is empty; ChangesIter then yields the
\* buffered rows that remain, returns None, keeps returning None on every later
\* call and never invokes load_page again.
C28_IteratorEnd ==
    /\ [](\A kind \in {"changes", "all_changes"} :
             (Loaded(kind) /\ ReachedEnd(itLoad)) => ~itLoad.has_next_page)
    /\ []((itPc = "iter" /\ itLast = "None") => (itPage = <<>> /\ ~itHasNext))
    /\ [][(itPc = "iter" /\ itPc' = "iter" /\ itPage = <<>> /\ ~itHasNext) =>
             (itLast' = "None" /\ itLoads' = itLoads /\ itYielded' = itYielded)]_vars

\* an iterator has yielded rows, loaded an empty tail and returned None
C28_Witness ==
    /\ itPc = "iter"
    /\ itLast = "None"
    /\ itYielded # <<>>
    /\ itLoads > 1
    /\ itLoad.rows = <<>>
    /\ ~itLoad.struck

\* C29: errors short-circuit the change sequence: once ChangesIter has yielded an
\* error item, the next call returns None and load_page is not called again, so
\* that a loop over the iterator ends even when every page load fails.
C29_ErrorsShortCircuit ==
    [][(itPc = "iter" /\ itPc' = "iter" /\ itLast = "Err") =>
         (itLast' = "None" /\ itLoads' = itLoads)]_vars

\* C30: a failure while fetching a row of a change page is reported to the
\* consumer as an error item, for the selective read as for the full read; it is
\* never turned into a page that ends the sequence short of the rows of the
\* result, so that no cursor is moved past rows that were not read.
C30_FetchFailureReported ==
    \A kind \in {"changes", "all_changes"} :
        (itPc = "iter" /\ itKind = kind /\ itLoads > 0 /\ itLoad.struck) =>
            /\ ~itLoad.ok
            /\ itLast = "Err"

\* the identifier enclosed by the pair of double quotes that directly follows
\* the leftmost keyword of sql that is followed by such a pair
QuotedAfter(keyword, sql) ==
    LET starts == {i \in 1..Len(sql) :
                     /\ sql[i] = keyword
                     /\ i + 1 <= Len(sql) /\ sql[i + 1] = QUOTE
                     /\ \E j \in (i + 3)..Len(sql) : sql[j] = QUOTE}
    IN  IF starts = {}
        THEN [matched |-> FALSE, name |-> <<>>]
        ELSE LET i == CHOOSE x \in starts : \A y \in starts : x <= y
                 j == CHOOSE x \in (i + 3)..Len(sql) :
                        /\ sql[x] = QUOTE
                        /\ \A y \in (i + 3)..Len(sql) : sql[y] = QUOTE => x <= y
             IN  [matched |-> TRUE, name |-> SubSeq(sql, i + 2, j - 1)]

\* the class of a statement by the table it names
Classified(sql) ==
    LET altered == QuotedAfter("ALTER TABLE ", sql)
        created == QuotedAfter("CREATE TABLE ", sql)
    IN  IF altered.matched
        THEN [type |-> "Alter", table_name |-> altered.name]
        ELSE IF created.matched
             THEN [type |-> "Create", table_name |-> created.name]
             ELSE [type |-> "Other", table_name |-> <<>>]

\* the requests whose statements have been classified and rewritten
Rewritten == {r \in Requests : mPc[r] \in {"savepoint", "committed", "returned"}}

\* C31: detect returns Create(name) for a statement containing CREATE TABLE
\* "<name>", Alter(name) for one containing ALTER TABLE "<name>" and Other
\* otherwise, name being exactly the identifier enclosed by the pair of double
\* quotes that directly follows the keyword, also when further double-quoted
\* identifiers follow in the statement.
C31_Classification ==
    \A r \in Rewritten : \A i \in 1..Len(mQueries[r]) :
        detect(mQueries[r][i]) = Classified(mQueries[r][i])

\* the statements CR-SQLite needs around sql
Ceremony(sql) ==
    LET m == Classified(sql)
    IN  IF m.type = "Alter"
        THEN << <<"SELECT crsql_begin_alter('">> \o m.table_name \o <<"')">>,
                sql,
                <<"SELECT crsql_commit_alter('">> \o m.table_name \o <<"')">> >>
        ELSE IF m.type = "Create"
             THEN << sql, <<"SELECT crsql_as_crr('">> \o m.table_name \o <<"')">> >>
             ELSE << sql >>

RECURSIVE Ceremonies(_)
Ceremonies(queries) ==
    IF queries = <<>> THEN <<>>
    ELSE Ceremony(Head(queries)) \o Ceremonies(Tail(queries))

\* C32: the rewritten batch holds the statements of the request in their input
\* order, each Create statement directly followed by SELECT crsql_as_crr('<name>'),
\* each Alter statement directly preceded by SELECT crsql_begin_alter('<name>')
\* and directly followed by SELECT crsql_commit_alter('<name>'), and the other
\* statements unchanged with nothing put around them.
C32_Ceremony ==
    \A i \in 1..Len(migrations) :
        migrations[i].sql = join(Ceremonies(mQueries[migrations[i].request]), ";\n")

\* C33: the versions of the migration events a subscriber receives, catch-up
\* followed by live, are strictly increasing and all greater than its
\* schema_version parameter; a live migration whose version is not greater than
\* the highest version emitted is dropped, so no migration is delivered twice.
C33_MigrationEvents ==
    \A s \in Streams :
        LET events == migration_events[s]
        IN  /\ \A i, j \in 1..Len(events) : i < j => events[i].version < events[j].version
            /\ pc[s] \in {"catchup", "live"} =>
                  \A i \in 1..Len(events) : events[i].version > query[s].schema_version
            /\ pc[s] \in {"catchup", "live"} /\ events # <<>> =>
                  schema_version[s] = events[Len(events)].version

\* a stream opened before the first migration was sent version 2 and then dropped
\* version 1, which reached the channel later
C33_Witness ==
    \E s \in Streams :
        /\ pc[s] = "live"
        /\ queue[s] = <<>>
        /\ query[s].schema_version = 0
        /\ Len(migrations) = 2
        /\ \A r \in Requests : mPc[r] = "done"
        /\ Len(migration_events[s]) = 1
        /\ migration_events[s][1].version = 2

\* the rows of the migration log that request r committed
Persisted(r) == {i \in 1..Len(migrations) : migrations[i].request = r}

\* the Migration messages waiting in the channel of stream s
InFlight(s) ==
    {queue[s][i].migration : i \in {j \in 1..Len(queue[s]) : queue[s][j].type = "Migration"}}

\* C34: post_migrate publishes the Migration only after apply_migration committed
\* it to the log, and it replies with success and keeps the migration persisted
\* also when no handle exists for the database or nobody receives the publish.
C34_PublishAfterCommit ==
    /\ \A s \in Streams : \A migration \in InFlight(s) :
          \E i \in 1..Len(migrations) :
              /\ migrations[i].version = migration.version
              /\ migrations[i].sql = migration.sql
    /\ \A s \in Streams : \A i \in 1..Len(migration_events[s]) :
          \E j \in 1..Len(migrations) :
              migrations[j].version = migration_events[s][i].version
    /\ \A r \in Requests :
          /\ mPc[r] \in {"committed", "returned"} => Persisted(r) # {}
          /\ mPc[r] = "done" /\ Persisted(r) # {} => mResult[r].status = "Ok"
          /\ mPc[r] = "done" /\ mResult[r].status = "Ok" =>
                \E i \in Persisted(r) : migrations[i].version = mResult[r].version

\* a migration was published while the database had no handle: the request was
\* answered with success and the row is in the log
C34_Witness ==
    /\ ~handle
    /\ \A s \in Streams : pc[s] = "idle" /\ queue[s] = <<>>
    /\ \E r \in Requests :
          /\ mPc[r] = "done"
          /\ mResult[r].status = "Ok"
          /\ Persisted(r) # {}

\* the GC task has ended for good
GcTerminated == gcTask = "returned"

\* C35 as stated: once every ChangeManager clone has been dropped, the GC task
\* never keeps the registry, or a handle in it, alive.
C35_NeverKeepsAlive == clones = 0 => strong = 0

\* C35: the GC task holds a weak reference while it sleeps: once every
\* ChangeManager clone has been dropped, the registry is alive only until the end
\* of a pass that had upgraded the reference before, the task returns at its next
\* wake-up, and it does terminate.
C35_WeakReference ==
    /\ [](strong = clones + (IF gcTask = "pass" THEN 1 ELSE 0))
    /\ [](clones = 0 /\ gcTask # "pass" => strong = 0)
    /\ [][clones = 0 /\ gcTask = "sleep" /\ gcTask' # gcTask => gcTask' = "returned"]_vars
    /\ [][GcTerminated => GcTerminated']_vars
    /\ []<>(clones = 0 => GcTerminated)

\* the last ChangeManager was dropped with a handle in the registry, and the GC
\* task returned
C35_Witness ==
    /\ clones = 0
    /\ GcTerminated
    /\ hCount > 0

RECURSIVE Traversal(_, _, _)
\* the rows one traversal of ChangesIter yields when no read fails: the pages of
\* load_page in turn, each starting at the db_version the page before ended at,
\* until a page reports no next page or is empty
Traversal(kind, l, db_version) ==
    LET page == IF kind = "changes"
                THEN ChangesPage(l, db_version, "a", AllowedTables_All)
                ELSE AllChangesPage(l, db_version)
    IN  IF page.has_next_page /\ page.buffer # <<>>
        THEN page.buffer \o Traversal(kind, l, page.db_version)
        ELSE page.buffer

\* the ids of the rows of a result, in its order
Ids(rows) == [i \in 1..Len(rows) |-> rows[i].id]

\* the iterator went through its pages as Traversal does and returned None
Traversed(kind) ==
    /\ itPc = "iter"
    /\ itKind = kind
    /\ itLast = "None"
    /\ itYielded = Ids(Traversal(kind, log, 0))

\* C36: for any change log and byte budget, the concatenation of the pages of one
\* traversal of all_changes() or changes(site) equals the result of the same query
\* run unpaged from the starting cursor: no row is skipped and none is repeated,
\* also when the rows of one commit together exceed the budget.
C36_PagedComplete ==
    \A kind \in {"changes", "all_changes"} :
        Traversed(kind) => itYielded = Ids(IterSelect(kind, log, 0))

\* the selective read of Database::changes yields every row of its query
C36_SelectiveComplete ==
    Traversed("changes") => itYielded = Ids(IterSelect("changes", log, 0))

\* stream s is connected, has taken everything out of its channel, and no
\* migrate request is under way
Quiet(s) ==
    /\ pc[s] = "live"
    /\ queue[s] = <<>>
    /\ \A r \in Requests : mPc[r] \in {"idle", "done"}

\* C37: a subscriber that stays connected receives every committed migration
\* with version greater than its schema_version, also when two post_migrate
\* requests commit versions n and n+1 and their publish_migration calls reach the
\* broadcast channel in the opposite order.
C37_MigrationsComplete ==
    \A s \in Streams :
        Quiet(s) =>
            \A i \in 1..Len(migrations) :
                migrations[i].version > query[s].schema_version =>
                    \E j \in 1..Len(migration_events[s]) :
                        migration_events[s][j].version = migrations[i].version

\* C38: when several authenticated users without permissions concurrently call
\* authorize_migration for the same database name whose file does not yet exist,
\* at most one of them is granted Full (owner) permissions on that database; the
\* others receive Unauthorized.
C38_ExclusiveOwnership == Cardinality(owners) <= 1

\* stream s was opened by a caller whose permissions make no table readable
Unreadable(s) ==
    /\ pc[s] # "idle"
    /\ AllowedTables_is_empty(readable_tables(query[s].permissions))

\* a caller without a readable table is sent no event
NothingDelivered ==
    \A s \in Streams :
        Unreadable(s) => received[s] = <<>> /\ migration_events[s] = <<>>

\* C39: when readable_tables() of the caller's permissions is empty, the stream
\* endpoint delivers no change event and no migration event to that caller and
\* terminates with the Unauthorized error with which changes(site) fails before
\* it reads a row.
C39_NothingThenUnauthorized ==
    \A s \in Streams :
        Unreadable(s) =>
            /\ received[s] = <<>>
            /\ migration_events[s] = <<>>
            /\ pc[s] = "closed"

\* the capabilities of a permission row of the model
RowCapabilities == {"read", "insert"}

\* row grants capability: its flag or its full flag is set
RowGrants(row, capability) == row.full \/ row[capability]

\* P grants capability on the database
DatabaseGrants(P, capability) == P.full \/ P.database[capability]

\* P grants capability on table t through the entry of the table
TableGrants(P, capability, t) == P.full \/ TableCapability(P, capability, t)

\* P grants what the rows grant, the full grants included
UnionOf(P, rows) ==
    \A i \in 1..Len(rows) : \A capability \in RowCapabilities :
        /\ RowGrants(rows[i], capability) =>
              IF rows[i].table_name = NULL
              THEN DatabaseGrants(P, capability)
              ELSE TableGrants(P, capability, rows[i].table_name)
        /\ rows[i].full =>
              IF rows[i].table_name = NULL
              THEN P.full
              ELSE P.full \/ (rows[i].table_name \in DOMAIN P.tables
                                /\ P.tables[rows[i].table_name].full)

\* a full grant is kept whatever rows follow it
FullNeverDowngraded ==
    roPc = "done" =>
        \A i \in 1..Len(roRows) :
            roRows[i].full =>
                IF roRows[i].table_name = NULL
                THEN roResult.full
                ELSE roResult.full \/ (roRows[i].table_name \in DOMAIN roResult.tables
                                         /\ roResult.tables[roRows[i].table_name].full)

\* C40: the DatabasePermissions returned by get_permissions_for_user grants a
\* database-level or table-level capability whenever at least one permission row
\* of one of the user's roles grants it, for every order in which the rows are
\* returned; a full grant is never downgraded by a later partial row.
C40_UnionOfRoles ==
    roPc = "done" =>
        /\ UnionOf(roResult, roRows)
        /\ \A f \in Orders(Len(roRows)) :
              permissions_of_rows(Ordered(roRows, f), DatabasePermissions_default) = roResult

====
